---- MODULE Spec2Model ----
(***************************************************************************)
(* General-ledger core of ck-reference: journal entries, period locks,     *)
(* period close / reopen / reclose (backend/app/services/gl/*.py) over the *)
(* PostgreSQL schema of the accounting_core and gl_period_locks            *)
(* migrations.                                                             *)
(*                                                                         *)
(* Amounts are Decimals; they are represented as integers counted in       *)
(* thousandths of the currency unit, so that 1.00 is 1000 and one cent     *)
(* (the scale of the NUMERIC(14,2) columns) is Cent.                       *)
(***************************************************************************)
EXTENDS Integers, Sequences, FiniteSets, TLC

VARIABLES
    gl_accounts,       \* table gl_accounts: id -> row
    gl_account_id_seq, \* serial behind gl_accounts.id (last value handed out)
    journal_entries,   \* table journal_entries with its journal_lines: id -> row
    gl_period_locks,   \* table gl_period_locks: period_month -> is_locked
    je_id_seq,         \* serial behind journal_entries.id (last value handed out)
    je_entry_no_seq,   \* sequence je_entry_no_seq (last value handed out)
    advisory,          \* pg advisory locks: key -> [holder, count], holder a connection
    pool,              \* the engine's connection pool: the idle connections, oldest first
    session,           \* per request: its Session's connection, the call in progress
    last               \* outcome of the call that returned last

vars == <<gl_accounts, gl_account_id_seq, journal_entries, gl_period_locks,
          je_id_seq, je_entry_no_seq, advisory, pool, session, last>>

----------------------------------------------------------------------------
(* Bounds and input domains *)

MaxEntries == 4          \* cap on the number of journal_entries ids handed out
MaxUser == 2             \* cap on the entries created through POST /gl/journal
MaxLockCount == 2        \* cap on the times one advisory lock is held
MaxAccounts == 6         \* cap on the gl_accounts ids handed out

Cent == 10               \* 0.01 in thousandths: the scale of NUMERIC(14,2)

Years == {2025}
Months == {8, 9}

NULL == "NULL"

Date(y, m, d) == [y |-> y, m |-> m, d |-> d]
NoDate == Date(0, 0, 0)          \* an optional date that was not given

\* calendar.monthrange(year, month)[1]
MonthRange(y, m) ==
    IF m \in {4, 6, 9, 11} THEN 30
    ELSE IF m = 2 THEN (IF y % 4 = 0 /\ (y % 100 # 0 \/ y % 400 = 0) THEN 29 ELSE 28)
    ELSE 31

\* strings that the code builds or compares: a kind, a number, and the
\* number of "-REV" suffixes appended
Str(kind, n) == [kind |-> kind, n |-> n, rev |-> 0]
NullStr == Str("NULL", 0)
IntStr(n) == Str("INT", n)                      \* str(n)

\* account codes and names: a text, written in lower case or with capitals
Text(t) == [text |-> t, upper |-> FALSE]
Capitals(x) == [x EXCEPT !.upper = TRUE]
\* func.lower(...)
lower(x) == [x EXCEPT !.upper = FALSE]

GLAccountRow(code, name, type, is_cash) ==
    [code |-> code, name |-> name, type |-> type, is_cash |-> is_cash,
     is_active |-> TRUE]

\* the chart of accounts the books start with
SeedAccounts ==
    (1 :> GLAccountRow(Text("1000"), Text("cash"),    "asset",   TRUE )) @@
    (2 :> GLAccountRow(Text("4000"), Text("income"),  "income",  FALSE)) @@
    (3 :> GLAccountRow(Text("5000"), Text("expense"), "expense", FALSE)) @@
    (4 :> GLAccountRow(Text("3000"), Text("equity"),  "equity",  FALSE))

\* the rows of gl_accounts as the journal and the close read them
GLAccounts == gl_accounts

MissingAccounts == {9}   \* account ids with no gl_accounts row

----------------------------------------------------------------------------
(* Decimal and NUMERIC arithmetic *)

Abs(x) == IF x < 0 THEN -x ELSE x

\* Decimal.quantize(Decimal("0.01")) under the default context (ROUND_HALF_EVEN)
Quantize(x) ==
    LET a == Abs(x)
        q == a \div Cent
        r == a % Cent
        up == (2 * r > Cent) \/ (2 * r = Cent /\ q % 2 = 1)
        mag == (IF up THEN q + 1 ELSE q) * Cent
    IN  IF x < 0 THEN -mag ELSE mag

\* assignment to a NUMERIC(14,2) column: PostgreSQL rounds to the scale,
\* ties away from zero
NumericStore(x) ==
    LET a == Abs(x)
        q == a \div Cent
        r == a % Cent
        mag == (IF 2 * r >= Cent THEN q + 1 ELSE q) * Cent
    IN  IF x < 0 THEN -mag ELSE mag

RECURSIVE SumDebit(_)
SumDebit(ls) == IF ls = <<>> THEN 0 ELSE ls[1].debit + SumDebit(Tail(ls))

RECURSIVE SumCredit(_)
SumCredit(ls) == IF ls = <<>> THEN 0 ELSE ls[1].credit + SumCredit(Tail(ls))

----------------------------------------------------------------------------
(* Database state as one value, so that service functions are operators *)

DB == [je |-> journal_entries, locks |-> gl_period_locks,
       id_seq |-> je_id_seq, no_seq |-> je_entry_no_seq]

Commit(db) ==
    /\ UNCHANGED <<gl_accounts, gl_account_id_seq>>
    /\ journal_entries' = db.je
    /\ gl_period_locks' = db.locks
    /\ je_id_seq' = db.id_seq
    /\ je_entry_no_seq' = db.no_seq

Result(db, err, id) == [db |-> db, err |-> err, id |-> id]

----------------------------------------------------------------------------
(* services/gl/locks.py *)

_first_of_month(d) == Date(d.y, d.m, 1)

\* a lookup of the lock row by the date itself, not by its month
LockedOnExactDate(db, d) == d \in DOMAIN db.locks /\ db.locks[d]

_is_period_locked(db, d) ==
    LET pm == _first_of_month(d)
    IN  pm \in DOMAIN db.locks /\ db.locks[pm]

\* INSERT ... ON CONFLICT (period_month) DO NOTHING: the first flag stays
set_lock_keeping_row(db, first, is_locked) ==
    [db EXCEPT !.locks =
        IF first \in DOMAIN db.locks THEN db.locks
        ELSE db.locks @@ (first :> is_locked)]

\* INSERT ... ON CONFLICT (period_month) DO UPDATE SET is_locked = EXCLUDED.is_locked
_set_period_lock(db, first, is_locked) ==
    [db EXCEPT !.locks =
        IF first \in DOMAIN db.locks
        THEN [db.locks EXCEPT ![first] = is_locked]
        ELSE db.locks @@ (first :> is_locked)]

----------------------------------------------------------------------------
(* services/gl/accounts.py *)

NullText == Text("")             \* an optional code or name that was not given

AcctResult(accts, seq, err, id) == [accts |-> accts, seq |-> seq, err |-> err, id |-> id]

\* get_gl_account_by_code: some row whose code equals the code, case ignored
get_gl_account_by_code(accts, code) ==
    {a \in DOMAIN accts : lower(accts[a].code) = lower(code)}

create_gl_account(accts, seq, code, name, type_, is_cash, audit_ok) ==
    IF get_gl_account_by_code(accts, code) # {}
        THEN AcctResult(accts, seq, "code_exists", 0)
    ELSE IF \E a \in DOMAIN accts : lower(accts[a].name) = lower(name)
        THEN AcctResult(accts, seq, "name_exists", 0)
    \* db.add(acct); db.flush() takes the id; a failed flush in _log rolls the
    \* insert back, and db.refresh(acct) raises on the instance rolled back
    ELSE IF ~audit_ok THEN AcctResult(accts, seq + 1, "db_error", 0)
    ELSE AcctResult(accts @@ (seq + 1 :> GLAccountRow(code, name, type_, is_cash)),
                    seq + 1, "ok", seq + 1)

\* the row after the assignments of update_gl_account; optional booleans
\* are <<>> when not given, optional texts NullText, the optional type ""
UpdatedRow(acct, code, name, type_, is_cash, is_active) ==
    [code      |-> IF code # NullText /\ code # acct.code THEN code ELSE acct.code,
     name      |-> IF name # NullText /\ name # acct.name THEN name ELSE acct.name,
     type      |-> IF type_ # "" THEN type_ ELSE acct.type,
     is_cash   |-> IF is_cash # <<>> THEN is_cash[1] ELSE acct.is_cash,
     is_active |-> IF is_active # <<>> THEN is_active[1] ELSE acct.is_active]

update_gl_account(accts, seq, account_id, code, name, type_, is_cash, is_active, audit_ok) ==
    IF account_id \notin DOMAIN accts THEN AcctResult(accts, seq, "account_not_found", 0)
    ELSE IF /\ code # NullText /\ code # accts[account_id].code
            /\ get_gl_account_by_code(accts, code) # {}
        THEN AcctResult(accts, seq, "code_exists", 0)
    ELSE IF /\ name # NullText /\ name # accts[account_id].name
            /\ \E a \in DOMAIN accts \ {account_id} :
                   lower(accts[a].name) = lower(name)
        THEN AcctResult(accts, seq, "name_exists", 0)
    \* a failed flush in _log rolls the update back; commit and refresh succeed
    ELSE IF ~audit_ok THEN AcctResult(accts, seq, "ok", account_id)
    ELSE AcctResult([accts EXCEPT ![account_id] =
                        UpdatedRow(@, code, name, type_, is_cash, is_active)],
                    seq, "ok", account_id)

----------------------------------------------------------------------------
(* services/gl/journal.py *)

\* a journal_lines table without its CHECK constraint
NoLineCheck(l) == TRUE

\* CHECK constraint ck_journal_lines_one_side_positive on journal_lines
ck_journal_lines_one_side_positive(l) ==
    /\ l.debit >= 0 /\ l.credit >= 0
    /\ \/ (l.debit = 0 /\ l.credit > 0)
       \/ (l.credit = 0 /\ l.debit > 0)

\* the per-line test of create_journal_entry (journal.py:70)
OneSided(ln) ==
    \/ (ln.debit > 0 /\ ln.credit = 0)
    \/ (ln.credit > 0 /\ ln.debit = 0)

\* what the loop of create_journal_entry raises at line ln, if anything
LineError(ln) ==
    IF ln.account_id \notin DOMAIN GLAccounts THEN "account_not_found"
    ELSE IF ~OneSided(ln) THEN "line_not_one_sided"
    ELSE "ok"

\* the JournalLine rows as stored: NUMERIC(14,2) amounts,
\* line_no = int(ln.get("line_no") or next_line_no)
StoredLines(lines) ==
    [i \in 1..Len(lines) |->
        [account_id |-> lines[i].account_id,
         debit      |-> NumericStore(lines[i].debit),
         credit     |-> NumericStore(lines[i].credit),
         line_no    |-> IF lines[i].line_no # 0 THEN lines[i].line_no ELSE i]]

\* the balance test of create_journal_entry (journal.py:87)
Balanced(lines) == Quantize(SumDebit(lines) - SumCredit(lines)) = 0

\* an entry number taken from the rows that are committed: one more than
\* the largest
max_entry_no_plus_one(db) ==
    LET nos == {db.je[i].entry_no : i \in DOMAIN db.je}
    IN  IF nos = {} THEN 1 ELSE 1 + CHOOSE n \in nos : \A k \in nos : k <= n

\* entry_no: server_default nextval('je_entry_no_seq')
next_entry_no(db) == db.no_seq + 1

\* a create that adds the entry and its lines to the table first and runs
\* the tests of the lines and of the balance afterwards
create_add_before_checks(db, entry_date, reference_no, source_module, source_id, lines, audit_ok) ==
    LET bad == {i \in 1..Len(lines) : lines[i].account_id \in MissingAccounts
                                       \/ ~((lines[i].debit > 0 /\ lines[i].credit = 0)
                                            \/ (lines[i].credit > 0 /\ lines[i].debit = 0))}
        id  == db.id_seq + 1
        je  == [entry_no |-> db.no_seq + 1, entry_date |-> entry_date,
                reference_no |-> reference_no, source_module |-> source_module,
                source_id |-> source_id, is_locked |-> FALSE, posted_at |-> NULL,
                posted_by_user_id |-> NULL, locked_at |-> NULL, lines |-> lines]
        added == [db EXCEPT !.id_seq = id, !.no_seq = @ + 1, !.je = @ @@ (id :> je)]
    IN  IF bad # {} THEN Result(added, "line_not_one_sided", 0)
        ELSE IF SumDebit(lines) # SumCredit(lines) THEN Result(added, "not_balanced", 0)
        ELSE Result(added, "ok", id)

create_journal_entry(db, entry_date, reference_no, source_module, source_id, lines, audit_ok) ==
    LET bad    == {i \in 1..Len(lines) : LineError(lines[i]) # "ok"}
        first  == CHOOSE i \in bad : \A j \in bad : i <= j
        id     == db.id_seq + 1
        no     == next_entry_no(db)
        \* db.add(je); db.flush(): both sequences advance, also if rolled back
        seqdb  == [db EXCEPT !.id_seq = id, !.no_seq = no]
        stored == StoredLines(lines)
        je     == [entry_no      |-> no,
                   entry_date    |-> entry_date,
                   reference_no  |-> reference_no,
                   source_module |-> source_module,
                   source_id     |-> source_id,
                   is_locked     |-> FALSE,
                   posted_at     |-> NULL,
                   posted_by_user_id |-> NULL,
                   locked_at     |-> NULL,
                   lines         |-> stored]
        \* the flush inside _log inserts the lines and the audit row
        flush_ok == audit_ok /\ \A i \in 1..Len(stored) :
                                    ck_journal_lines_one_side_positive(stored[i])
    IN  IF bad # {} THEN Result(db, LineError(lines[first]), 0)
        ELSE IF ~Balanced(lines) THEN Result(db, "not_balanced", 0)
        ELSE IF ~flush_ok
             \* _log: db.rollback(); then db.commit() of nothing and
             \* db.refresh(je) raises on the instance that was rolled back
             THEN Result(seqdb, "db_error", 0)
        ELSE Result([seqdb EXCEPT !.je = db.je @@ (id :> je)], "ok", id)


\* what post_journal_entry and unpost_journal_entry write to the row
\* datetime.utcnow() where time is not told apart, and the times it may return
utcnow == "now"
Times == {utcnow, "later"}

\* user ids as the callers pass them: None, or a user
Users == {NULL, "u7"}

\* an unpost that clears is_locked and keeps the stamps of the posting
UnpostedKeepingStamps(e) == [e EXCEPT !.is_locked = FALSE]

\* a posting that stamps posted_at and leaves locked_at as it is
PostedWithoutLockedAt(e, now, posted_by_user_id) ==
    [e EXCEPT !.posted_at = now, !.posted_by_user_id = posted_by_user_id,
              !.is_locked = TRUE]

Posted(e, now, posted_by_user_id) ==
    [e EXCEPT !.posted_at = now, !.posted_by_user_id = posted_by_user_id,
              !.is_locked = TRUE, !.locked_at = now]
Unposted(e) ==
    [e EXCEPT !.posted_at = NULL, !.posted_by_user_id = NULL,
              !.is_locked = FALSE, !.locked_at = NULL]

\* the balance test of post_journal_entry (journal.py:130-132), on stored amounts
PostBalanced(e) == Quantize(SumDebit(e.lines) - SumCredit(e.lines)) = 0

\* a post without the early return for an entry that is posted already
post_without_noop(db, je_id, now, posted_by_user_id, audit_ok) ==
    IF je_id \notin DOMAIN db.je THEN Result(db, "entry_not_found", 0)
    ELSE IF _is_period_locked(db, db.je[je_id].entry_date)
         THEN Result(db, "period_locked", 0)
    ELSE Result([db EXCEPT !.je[je_id] = Posted(@, now, posted_by_user_id)], "ok", je_id)

post_journal_entry(db, je_id, now, posted_by_user_id, audit_ok) ==
    IF je_id \notin DOMAIN db.je THEN Result(db, "entry_not_found", 0)
    ELSE IF db.je[je_id].is_locked THEN Result(db, "ok", je_id)
    ELSE IF _is_period_locked(db, db.je[je_id].entry_date)
         THEN Result(db, "period_locked", 0)
    ELSE IF ~PostBalanced(db.je[je_id]) THEN Result(db, "post_unbalanced", 0)
    \* a failed flush in _log rolls the update back; commit and refresh then succeed
    ELSE IF ~audit_ok THEN Result(db, "ok", je_id)
    ELSE Result([db EXCEPT !.je[je_id] = Posted(@, now, posted_by_user_id)], "ok", je_id)

unpost_journal_entry(db, je_id, audit_ok) ==
    IF je_id \notin DOMAIN db.je THEN Result(db, "entry_not_found", 0)
    ELSE IF ~db.je[je_id].is_locked THEN Result(db, "ok", je_id)
    ELSE IF _is_period_locked(db, db.je[je_id].entry_date)
         THEN Result(db, "period_locked", 0)
    ELSE IF ~audit_ok THEN Result(db, "ok", je_id)
    ELSE Result([db EXCEPT !.je[je_id] = Unposted(@)], "ok", je_id)

\* rev_date = as_of or src.entry_date
RevDate(src, as_of) == IF as_of # NoDate THEN as_of ELSE src.entry_date

\* lines carried over without swapping their sides
CopiedLines(src) ==
    [i \in 1..Len(src.lines) |->
        [account_id |-> src.lines[i].account_id,
         debit      |-> src.lines[i].debit,
         credit     |-> src.lines[i].credit,
         line_no    |-> 0]]

\* the mirror lines built by reverse_journal_entry (no line_no key)
ReversedLines(src) ==
    [i \in 1..Len(src.lines) |->
        [account_id |-> src.lines[i].account_id,
         debit      |-> src.lines[i].credit,
         credit     |-> src.lines[i].debit,
         line_no    |-> 0]]

\* ref_base = src.reference_no or f"JE-{src.entry_no}"; ref_rev = f"{ref_base}-REV"
RevRef(src) ==
    LET base == IF src.reference_no # NullStr THEN src.reference_no
                ELSE Str("JE", src.entry_no)
    IN  [base EXCEPT !.rev = @ + 1]

\* reverse_journal_entry up to and including its create_journal_entry
reverse_create(db, je_id, as_of, audit_ok) ==
    IF je_id \notin DOMAIN db.je THEN Result(db, "entry_not_found", 0)
    ELSE IF ~db.je[je_id].is_locked THEN Result(db, "reverse_draft", 0)
    ELSE IF _is_period_locked(db, RevDate(db.je[je_id], as_of))
         THEN Result(db, "period_locked", 0)
    ELSE create_journal_entry(db, RevDate(db.je[je_id], as_of), RevRef(db.je[je_id]),
                              Str("reversal", 0), IntStr(je_id),
                              ReversedLines(db.je[je_id]), audit_ok)

reverse_journal_entry(db, je_id, as_of, audit_ok) ==
    LET c == reverse_create(db, je_id, as_of, audit_ok)
    IN  IF c.err # "ok" THEN c ELSE post_journal_entry(c.db, c.id, utcnow, NULL, audit_ok)

----------------------------------------------------------------------------
(* services/gl/periods.py *)

\* _period_lock_key: the advisory-lock key of a month
_period_lock_key(year, month) == year * 100 + month

\* ref = f"CLOSE-{year:04d}{month:02d}"
CloseRef(year, month) == Str("CLOSE", year * 100 + month)

DateLE(a, b) ==
    \/ a.y < b.y
    \/ a.y = b.y /\ a.m < b.m
    \/ a.y = b.y /\ a.m = b.m /\ a.d <= b.d

\* a lookup that counts a reversal whether it is posted or not
HasAnyReversalFor(db, closing_id) ==
    \E r \in DOMAIN db.je :
        /\ db.je[r].source_module = Str("reversal", 0)
        /\ db.je[r].source_id = IntStr(closing_id)

_has_posted_reversal_for(db, closing_id) ==
    \E r \in DOMAIN db.je :
        /\ db.je[r].source_module = Str("reversal", 0)
        /\ db.je[r].source_id = IntStr(closing_id)
        /\ db.je[r].is_locked

\* ids of the posted entries whose reference_no is CLOSE-YYYYMM
ClosingIds(db, year, month) ==
    {i \in DOMAIN db.je : db.je[i].reference_no = CloseRef(year, month)
                          /\ db.je[i].is_locked}

\* the entries the aggregation query of close_period joins (periods.py:95-106)
AggregatedEntries(db, first, lastd) ==
    {i \in DOMAIN db.je : /\ db.je[i].is_locked
                          /\ DateLE(first, db.je[i].entry_date)
                          /\ DateLE(db.je[i].entry_date, lastd)}

OnAccount(ls, a) == SelectSeq(ls, LAMBDA l : l.account_id = a)

RECURSIVE SumDr(_, _, _)
SumDr(je, ids, a) ==
    IF ids = {} THEN 0
    ELSE LET i == CHOOSE i \in ids : TRUE
         IN  SumDebit(OnAccount(je[i].lines, a)) + SumDr(je, ids \ {i}, a)

RECURSIVE SumCr(_, _, _)
SumCr(je, ids, a) ==
    IF ids = {} THEN 0
    ELSE LET i == CHOOSE i \in ids : TRUE
         IN  SumCredit(OnAccount(je[i].lines, a)) + SumCr(je, ids \ {i}, a)

\* accounts that have a row in the GROUP BY result
AggregatedAccounts(je, ids) ==
    {a \in DOMAIN GLAccounts :
        \E i \in ids : \E k \in 1..Len(je[i].lines) : je[i].lines[k].account_id = a}

\* the closing line of one result row, or <<>> (periods.py:113-126)
CloseLine(je, ids, a) ==
    LET dr == SumDr(je, ids, a)
        cr == SumCr(je, ids, a)
    IN  IF GLAccounts[a].type = "income" /\ cr - dr > 0
            THEN <<[account_id |-> a, debit |-> cr - dr, credit |-> 0, line_no |-> 0]>>
        ELSE IF GLAccounts[a].type = "expense" /\ dr - cr > 0
            THEN <<[account_id |-> a, debit |-> 0, credit |-> dr - cr, line_no |-> 0]>>
        ELSE <<>>

\* the lines of all result rows, rows taken in account-id order
RECURSIVE CloseLines(_, _, _)
CloseLines(je, ids, accts) ==
    IF accts = {} THEN <<>>
    ELSE LET a == CHOOSE a \in accts : \A b \in accts : a <= b
         IN  CloseLine(je, ids, a) \o CloseLines(je, ids, accts \ {a})

\* income_total and expense_total: income lines are the debits emitted,
\* expense lines the credits
IncomeTotal(lines)  == SumDebit(lines)
ExpenseTotal(lines) == SumCredit(lines)

\* the lines of the closing entry: account lines, then the equity line if any
ClosingEntryLines(lines, equity_account_id) ==
    LET equity_amt == IncomeTotal(lines) - ExpenseTotal(lines)
    IN  IF equity_amt > 0
            THEN Append(lines, [account_id |-> equity_account_id, debit |-> 0,
                                credit |-> equity_amt, line_no |-> 0])
        ELSE IF equity_amt < 0
            THEN Append(lines, [account_id |-> equity_account_id,
                                debit |-> -equity_amt, credit |-> 0, line_no |-> 0])
        ELSE lines

\* close_period inside its advisory lock, up to and including the
\* create_journal_entry of the closing entry
close_create(db, year, month, equity_account_id, audit_ok) ==
    LET first == Date(year, month, 1)
        lastd == Date(year, month, MonthRange(year, month))
        ids   == AggregatedEntries(db, first, lastd)
        lines == CloseLines(db.je, ids, AggregatedAccounts(db.je, ids))
    IN  IF _is_period_locked(db, first) THEN Result(db, "close_locked", 0)
        ELSE IF \E cid \in ClosingIds(db, year, month) :
                    ~_has_posted_reversal_for(db, cid)
             THEN Result(db, "already_closed", 0)
        ELSE IF lines = <<>> /\ IncomeTotal(lines) = 0 /\ ExpenseTotal(lines) = 0
             THEN Result(db, "nothing_to_close", 0)
        ELSE create_journal_entry(db, lastd, CloseRef(year, month),
                                  Str("closing", 0), CloseRef(year, month),
                                  ClosingEntryLines(lines, equity_account_id),
                                  audit_ok)

\* a close that locks the month without posting the closing entry
close_without_post(db, year, month, equity_account_id, audit_ok) ==
    LET c == close_create(db, year, month, equity_account_id, audit_ok)
    IN  IF c.err # "ok" THEN c
        ELSE Result(_set_period_lock(c.db, Date(year, month, 1), TRUE), "ok", c.id)

\* close_period inside its advisory lock
close_locked_section(db, year, month, equity_account_id, audit_ok) ==
    LET c == close_create(db, year, month, equity_account_id, audit_ok)
        p == post_journal_entry(c.db, c.id, utcnow, NULL, audit_ok)
    IN  IF c.err # "ok" THEN c
        ELSE IF p.err # "ok" THEN p
        ELSE Result(_set_period_lock(p.db, Date(year, month, 1), TRUE), "ok", c.id)

\* a reopen that also unposts the closing entries of the month
reopen_unposting_closings(db, year, month) ==
    [_set_period_lock(db, Date(year, month, 1), FALSE) EXCEPT
        !.je = [i \in DOMAIN db.je |->
                   IF db.je[i].reference_no = CloseRef(year, month)
                   THEN Unposted(db.je[i]) ELSE db.je[i]]]

reopen_period(db, year, month) == _set_period_lock(db, Date(year, month, 1), FALSE)

\* a loop that reverses nothing
NoReversals(db, cids, as_of, audit_ok) == Result(db, "ok", 0)

\* the loop of reclose_period over closing_ids, taken in id order
RECURSIVE reverse_closings(_, _, _, _)
reverse_closings(db, cids, as_of, audit_ok) ==
    IF cids = {} THEN Result(db, "ok", 0)
    ELSE LET cid == CHOOSE c \in cids : \A d \in cids : c <= d
             r   == reverse_journal_entry(db, cid, as_of, audit_ok)
         IN  IF _has_posted_reversal_for(db, cid)
                 THEN reverse_closings(db, cids \ {cid}, as_of, audit_ok)
             ELSE IF r.err # "ok" THEN r
             ELSE reverse_closings(r.db, cids \ {cid}, as_of, audit_ok)

\* reclose_period inside its advisory lock, the nested close_period included
reclose_locked_section(db, year, month, equity_account_id, audit_ok) ==
    LET o == reopen_period(db, year, month)
        r == reverse_closings(o, ClosingIds(o, year, month),
                              Date(year, month, MonthRange(year, month)), audit_ok)
    IN  IF r.err # "ok" THEN r
        ELSE close_locked_section(r.db, year, month, equity_account_id, audit_ok)

----------------------------------------------------------------------------
(* Calls *)

\* the call before this one was the same period operation with the same
\* arguments, and it succeeded
Repeats(op, arg) == arg # <<>> /\ last.op = op /\ last.arg = arg /\ last.err = "ok"

\* what is remembered of the call that returned last: the operation, the
\* arguments of a period operation, its error ("ok" if none), the id it
\* returned, and, if it repeats the call before it, the id that one returned
Outcome(op, arg, err, id) ==
    [op |-> op, arg |-> arg, err |-> err, id |-> id,
     again |-> Repeats(op, arg),
     previd |-> IF Repeats(op, arg) THEN last.id ELSE 0]

Line(a, dr, cr) == [account_id |-> a, debit |-> dr, credit |-> cr, line_no |-> 0]

\* the entries that were not written by reverse_journal_entry or close_period
UserEntries ==
    {i \in DOMAIN journal_entries :
        journal_entries[i].source_module \notin {Str("reversal", 0), Str("closing", 0)}}

\* the calls of the journal, the audit write succeeding (audit_ok) or not
CreateEntryLogged(entry_date, reference_no, source_module, source_id, lines, audit_ok) ==
    /\ je_id_seq < MaxEntries
    /\ Cardinality(UserEntries) < MaxUser
    /\ LET r == create_journal_entry(DB, entry_date, reference_no, source_module,
                                     source_id, lines, audit_ok)
       IN  /\ Commit(r.db)
           /\ last' = Outcome("create", <<>>, r.err, r.id)
    /\ UNCHANGED <<advisory, pool, session>>

PostEntryLogged(je_id, audit_ok) ==
    /\ LET r == post_journal_entry(DB, je_id, utcnow, NULL, audit_ok)
       IN  /\ Commit(r.db)
           /\ last' = Outcome("post", <<>>, r.err, r.id)
    /\ UNCHANGED <<advisory, pool, session>>

UnpostEntryLogged(je_id, audit_ok) ==
    /\ LET r == unpost_journal_entry(DB, je_id, audit_ok)
       IN  /\ Commit(r.db)
           /\ last' = Outcome("unpost", <<>>, r.err, r.id)
    /\ UNCHANGED <<advisory, pool, session>>

CreateEntry(entry_date, reference_no, source_module, source_id, lines) ==
    CreateEntryLogged(entry_date, reference_no, source_module, source_id, lines, TRUE)

PostEntry(je_id) == PostEntryLogged(je_id, TRUE)

UnpostEntry(je_id) == UnpostEntryLogged(je_id, TRUE)

\* everything but the chart of accounts and the outcome of the call
UnchangedBooks ==
    UNCHANGED <<journal_entries, gl_period_locks, je_id_seq, je_entry_no_seq,
                advisory, pool, session>>

CreateAccount(code, name, type_, is_cash, audit_ok) ==
    /\ gl_account_id_seq < MaxAccounts
    /\ LET r == create_gl_account(gl_accounts, gl_account_id_seq, code, name, type_,
                                  is_cash, audit_ok)
       IN  /\ gl_accounts' = r.accts
           /\ gl_account_id_seq' = r.seq
           /\ last' = Outcome("create_account", <<>>, r.err, r.id)
    /\ UnchangedBooks

UpdateAccount(account_id, code, name, type_, is_cash, is_active, audit_ok) ==
    /\ LET r == update_gl_account(gl_accounts, gl_account_id_seq, account_id, code,
                                  name, type_, is_cash, is_active, audit_ok)
       IN  /\ gl_accounts' = r.accts
           /\ gl_account_id_seq' = r.seq
           /\ last' = Outcome("update_account", <<>>, r.err, r.id)
    /\ UnchangedBooks

ReverseEntry(je_id, as_of) ==
    /\ je_id_seq < MaxEntries
    /\ LET r == reverse_journal_entry(DB, je_id, as_of, TRUE)
       IN  /\ Commit(r.db)
           /\ last' = Outcome("reverse", <<>>, r.err, r.id)
    /\ UNCHANGED <<advisory, pool, session>>

\* PUT and DELETE /gl/locks/{year}-{month} (api/gl_locks.py)
SetPeriodLock(y, m, locked) ==
    /\ Commit(_set_period_lock(DB, Date(y, m, 1), locked))
    /\ last' = Outcome(IF locked THEN "lock_month" ELSE "unlock_month", <<y, m>>, "ok", 0)
    /\ UNCHANGED <<advisory, pool, session>>

EquityInputs == {4} \cup MissingAccounts

\* the advisory lock of the month is free, or held by nobody else: a
\* call made while no other call is in progress always acquires it
AdvisoryFree(year, month) == _period_lock_key(year, month) \notin DOMAIN advisory

ClosePeriod(y, m, eq) ==
    /\ AdvisoryFree(y, m)
    /\ LET r == close_locked_section(DB, y, m, eq, TRUE)
       IN  /\ r.db.id_seq <= MaxEntries
           /\ Commit(r.db)
           /\ last' = Outcome("close", <<y, m, eq>>, r.err, r.id)
    /\ UNCHANGED <<advisory, pool, session>>

ReopenPeriod(y, m) ==
    /\ Commit(reopen_period(DB, y, m))
    /\ last' = Outcome("reopen", <<y, m>>, "ok", 0)
    /\ UNCHANGED <<advisory, pool, session>>

ReclosePeriod(y, m, eq) ==
    /\ AdvisoryFree(y, m)
    /\ LET r == reclose_locked_section(DB, y, m, eq, TRUE)
       IN  /\ r.db.id_seq <= MaxEntries
           /\ Commit(r.db)
           /\ last' = Outcome("reclose", <<y, m, eq>>, r.err, r.id)
    /\ UNCHANGED <<advisory, pool, session>>

----------------------------------------------------------------------------
(* Requests: each runs on its own Session (db.py: get_db) *)

Sessions == {"s1", "s2"}

NoConn == 0

Idle == [pc |-> "idle", op |-> "none", y |-> 0, m |-> 0, eq |-> 0,
         conn |-> NoConn, err |-> "ok", id |-> 0, nested |-> FALSE,
         pending |-> <<>>, seen |-> {}]

----------------------------------------------------------------------------
Init ==
    /\ gl_accounts = SeedAccounts
    /\ gl_account_id_seq = Cardinality(DOMAIN SeedAccounts)
    /\ journal_entries = <<>>
    /\ gl_period_locks = <<>>
    /\ je_id_seq = 0
    /\ je_entry_no_seq = 0
    /\ advisory = <<>>
    /\ pool = <<>>
    /\ session = [s \in Sessions |-> Idle]
    /\ last = [op |-> "none", arg |-> <<>>, err |-> "ok", id |-> 0,
               again |-> FALSE, previd |-> 0]

----------------------------------------------------------------------------
(* The journal: create, post, unpost, reverse under manual month locks *)

JournalDates == {Date(y, m, 15) : y \in Years, m \in Months}

JournalLines ==
    { <<Line(1, 20000, 0), Line(2, 0, 20000)>> }     \* income 20.00 received in cash

AsOfInputs == {NoDate} \cup {Date(y, 9, 15) : y \in Years}

NextJournal ==
    \/ \E d \in JournalDates, ls \in JournalLines :
          CreateEntry(d, NullStr, NullStr, NullStr, ls)
    \/ \E id \in DOMAIN journal_entries : PostEntry(id)
    \/ \E id \in DOMAIN journal_entries : UnpostEntry(id)
    \/ \E id \in DOMAIN journal_entries, as_of \in AsOfInputs : ReverseEntry(id, as_of)
    \/ \E y \in Years, m \in Months, b \in BOOLEAN : SetPeriodLock(y, m, b)

SpecJournal == Init /\ [][NextJournal]_vars

----------------------------------------------------------------------------
(* Closing a month *)

CloseMonths == {8}

\* request bodies of POST /gl/journal: date and lines
CloseInputs ==
    { <<Date(y, 8, 15), <<Line(1, 20000, 0), Line(2, 0, 20000)>> >> : y \in Years }
    \cup   \* income 20.00 received in cash
    { <<Date(y, 8, 15), <<Line(3, 10000, 0), Line(1, 0, 10000)>> >> : y \in Years }
    \cup   \* expense 10.00 paid in cash
    { <<Date(y, 8, 15), <<Line(2, 10000, 0), Line(1, 0, 10000)>> >> : y \in Years }
    \cup   \* income 10.00 refunded
    { <<Date(y, 9, 15), <<Line(1, 20000, 0), Line(2, 0, 20000)>> >> : y \in Years }

NextClose ==
    \/ \E in \in CloseInputs : CreateEntry(in[1], NullStr, NullStr, NullStr, in[2])
    \/ \E id \in DOMAIN journal_entries : PostEntry(id)
    \/ \E id \in DOMAIN journal_entries : UnpostEntry(id)
    \/ \E id \in DOMAIN journal_entries : ReverseEntry(id, NoDate)
    \/ \E y \in Years, m \in CloseMonths, eq \in EquityInputs : ClosePeriod(y, m, eq)
    \/ \E y \in Years, m \in Months : ReopenPeriod(y, m)
    \/ \E y \in Years, m \in CloseMonths, eq \in EquityInputs : ReclosePeriod(y, m, eq)

SpecClose == Init /\ [][NextClose]_vars
----------------------------------------------------------------------------
(* Creating entries from request bodies whose amounts carry more than two    *)
(* decimals, are zero or are negative                                        *)

CreateAmounts == {-1000, 0, 4, 14, 16}

CreateLines ==
    {Line(1, dr, cr) : dr \in CreateAmounts, cr \in CreateAmounts}

CreateBodies ==
    {<<l>> : l \in CreateLines} \cup {<<l1, l2>> : l1 \in CreateLines, l2 \in CreateLines}

\* lines of request bodies that fail: a valid debit and a valid credit of
\* 1.00, a line on an account that does not exist, a line with both sides,
\* a line with neither, a credit of 2.00
FailLines ==
    {Line(1, 1000, 0), Line(1, 0, 1000), Line(2, 0, 2000), Line(1, 1000, 1000),
     Line(1, 0, 0)} \cup {Line(a, 1000, 0) : a \in MissingAccounts}

\* bodies of two lines, and bodies whose third line is the first to fail
FailBodies ==
    {<<l1, l2>> : l1 \in FailLines, l2 \in FailLines}
    \cup {<<Line(1, 1000, 0), Line(1, 0, 1000), l>> : l \in FailLines}

NextCreate ==
    \/ \E y \in Years, ls \in CreateBodies :
          CreateEntry(Date(y, 8, 15), NullStr, NullStr, NullStr, ls)
    \/ \E y \in Years, ls \in FailBodies :
          CreateEntry(Date(y, 8, 15), NullStr, NullStr, NullStr, ls)
    \/ \E id \in DOMAIN journal_entries : PostEntry(id)
    \/ \E id \in DOMAIN journal_entries : ReverseEntry(id, NoDate)

SpecCreate == Init /\ [][NextCreate]_vars

----------------------------------------------------------------------------
(* C1: every persisted journal entry, draft or posted, has the sum of its   *)
(* line debits equal to the sum of its line credits at two decimals.        *)
C1_EntriesBalanced ==
    \A i \in DOMAIN journal_entries :
        SumDebit(journal_entries[i].lines) = SumCredit(journal_entries[i].lines)

----------------------------------------------------------------------------
(* C2: every persisted journal line has exactly one of debit and credit     *)
(* strictly positive and the other exactly zero, and create_journal_entry   *)
(* rejects, persisting nothing, every body that has a line with both sides  *)
(* positive or with neither.                                                *)
BothOrNeither(ln) ==
    \/ (ln.debit > 0 /\ ln.credit > 0)
    \/ ~(ln.debit > 0) /\ ~(ln.credit > 0)

C2_OneSidedLines ==
    /\ \A i \in DOMAIN journal_entries :
          \A k \in 1..Len(journal_entries[i].lines) :
             LET l == journal_entries[i].lines[k]
             IN  \/ (l.debit > 0 /\ l.credit = 0)
                 \/ (l.credit > 0 /\ l.debit = 0)
    /\ \A y \in Years, ls \in CreateBodies :
          (\E k \in 1..Len(ls) : BothOrNeither(ls[k]))
          => LET r == create_journal_entry(DB, Date(y, 8, 15), NullStr, NullStr,
                                           NullStr, ls, TRUE)
             IN  r.err = "line_not_one_sided" /\ r.db = DB

\* a body with a two-sided or empty line was just rejected, next to an entry
\* whose sub-cent line was stored
C2_Witness ==
    /\ last.op = "create" /\ last.err = "line_not_one_sided"
    /\ \E i \in DOMAIN journal_entries : journal_entries[i].lines[1].debit = Cent
----------------------------------------------------------------------------
(* Calls whose audit write may fail *)

AuditBodies == { <<Line(1, 20000, 0), Line(2, 0, 20000)>> }

\* request bodies of POST /gl/accounts: code, name, type
AccountBodies ==
    { <<Text("6000"), Text("rent"), "expense">>,
      <<Capitals(Text("1000")), Text("petty cash"), "asset">>,
      <<Text("6100"), Capitals(Text("rent")), "expense">> }

\* request bodies of PATCH /gl/accounts/{id}: code, name, type, is_active
AccountUpdates ==
    { <<Text("6000"), NullText, "", <<>> >>,
      <<NullText, Text("rent"), "", <<>> >>,
      <<NullText, NullText, "liability", <<>> >>,
      <<NullText, NullText, "", <<FALSE>> >> }

UpdateIds == {4, 5}

NextAudit ==
    \/ \E y \in Years, ls \in AuditBodies, ok \in BOOLEAN :
          CreateEntryLogged(Date(y, 8, 15), NullStr, NullStr, NullStr, ls, ok)
    \/ \E id \in DOMAIN journal_entries, ok \in BOOLEAN : PostEntryLogged(id, ok)
    \/ \E id \in DOMAIN journal_entries, ok \in BOOLEAN : UnpostEntryLogged(id, ok)
    \/ \E b \in AccountBodies, ok \in BOOLEAN :
          CreateAccount(b[1], b[2], b[3], FALSE, ok)
    \/ \E id \in UpdateIds, u \in AccountUpdates, ok \in BOOLEAN :
          UpdateAccount(id, u[1], u[2], u[3], <<>>, u[4], ok)

SpecAudit == Init /\ [][NextAudit]_vars

\* the outcome of a journal call and of an account call: whether it failed,
\* and what it leaves persisted
JournalOutcome(r) == [err |-> r.err, je |-> r.db.je]
AccountOutcome(r) == [err |-> r.err, accts |-> r.accts]

(* C14: if writing the audit record fails during CreateEntry, PostEntry,    *)
(* UnpostEntry, CreateAccount or UpdateAccount, the business change is      *)
(* still committed: the call fails or not, and leaves persisted, exactly    *)
(* what it does when the audit write succeeds.                              *)
C14_AuditFailureHarmless ==
    /\ \A y \in Years, ls \in AuditBodies :
          JournalOutcome(create_journal_entry(DB, Date(y, 8, 15), NullStr, NullStr,
                                              NullStr, ls, FALSE))
          = JournalOutcome(create_journal_entry(DB, Date(y, 8, 15), NullStr, NullStr,
                                                NullStr, ls, TRUE))
    /\ \A id \in DOMAIN journal_entries :
          /\ JournalOutcome(post_journal_entry(DB, id, utcnow, NULL, FALSE))
             = JournalOutcome(post_journal_entry(DB, id, utcnow, NULL, TRUE))
          /\ JournalOutcome(unpost_journal_entry(DB, id, FALSE))
             = JournalOutcome(unpost_journal_entry(DB, id, TRUE))
    /\ \A b \in AccountBodies :
          AccountOutcome(create_gl_account(gl_accounts, gl_account_id_seq,
                                           b[1], b[2], b[3], FALSE, FALSE))
          = AccountOutcome(create_gl_account(gl_accounts, gl_account_id_seq,
                                             b[1], b[2], b[3], FALSE, TRUE))
    /\ \A id \in UpdateIds, u \in AccountUpdates :
          AccountOutcome(update_gl_account(gl_accounts, gl_account_id_seq, id,
                                           u[1], u[2], u[3], <<>>, u[4], FALSE))
          = AccountOutcome(update_gl_account(gl_accounts, gl_account_id_seq, id,
                                             u[1], u[2], u[3], <<>>, u[4], TRUE))

----------------------------------------------------------------------------
(* C11: a CreateEntry call that fails, because a line names an account that *)
(* does not exist, a line has both sides or neither, or the totals do not   *)
(* balance, whichever line it fails at, persists nothing: the journal       *)
(* entries and their lines are the same after the call as before it.        *)
C11_FailedCreatePersistsNothing ==
    [][(last'.op = "create" /\ last'.err # "ok")
          => journal_entries' = journal_entries]_vars

\* a body was just rejected for an account that does not exist, while an
\* entry created before is persisted
C11_Witness ==
    /\ last.op = "create" /\ last.err = "account_not_found"
    /\ journal_entries # <<>>
----------------------------------------------------------------------------
(* Locked periods *)

\* the gl_period_locks row of the month containing d says locked
MonthLocked(d) ==
    /\ Date(d.y, d.m, 1) \in DOMAIN gl_period_locks
    /\ gl_period_locks[Date(d.y, d.m, 1)]

PostRejectedWhenLocked ==
    \A id \in DOMAIN journal_entries :
        (~journal_entries[id].is_locked /\ MonthLocked(journal_entries[id].entry_date))
        => LET r == post_journal_entry(DB, id, utcnow, NULL, TRUE)
           IN  r.err = "period_locked" /\ r.db.je = journal_entries

UnpostRejectedWhenLocked ==
    \A id \in DOMAIN journal_entries :
        (journal_entries[id].is_locked /\ MonthLocked(journal_entries[id].entry_date))
        => LET r == unpost_journal_entry(DB, id, TRUE)
           IN  r.err = "period_locked" /\ r.db.je = journal_entries

(* C3 as stated: while the month containing d is locked, PostEntry on a     *)
(* draft entry dated d, UnpostEntry on a posted entry dated d and           *)
(* ReverseEntry (of any entry) whose reversal date is d each fail with the  *)
(* period-locked error and leave the entries and their posted state         *)
(* unchanged.                                                               *)
C3_LockedPeriodRejects ==
    /\ PostRejectedWhenLocked
    /\ UnpostRejectedWhenLocked
    /\ \A id \in DOMAIN journal_entries, as_of \in AsOfInputs :
          MonthLocked(RevDate(journal_entries[id], as_of))
          => LET r == reverse_journal_entry(DB, id, as_of, TRUE)
             IN  r.err = "period_locked" /\ r.db.je = journal_entries

(* C3 amended: the same, with ReverseEntry restricted to a posted source    *)
(* entry; ReverseEntry of a draft fails with the cannot-reverse-a-draft     *)
(* error whatever the lock says.                                            *)
C3_LockedPeriodRejectsPosted ==
    /\ PostRejectedWhenLocked
    /\ UnpostRejectedWhenLocked
    /\ \A id \in DOMAIN journal_entries, as_of \in AsOfInputs :
          (journal_entries[id].is_locked
             /\ MonthLocked(RevDate(journal_entries[id], as_of)))
          => LET r == reverse_journal_entry(DB, id, as_of, TRUE)
             IN  r.err = "period_locked" /\ r.db.je = journal_entries

\* a ReverseEntry call has just failed with the period-locked error while a
\* draft and a posted entry lie in locked months
C3_Witness ==
    /\ last.op = "reverse" /\ last.err = "period_locked"
    /\ \E i \in DOMAIN journal_entries :
          ~journal_entries[i].is_locked /\ MonthLocked(journal_entries[i].entry_date)
    /\ \E i \in DOMAIN journal_entries :
          journal_entries[i].is_locked /\ MonthLocked(journal_entries[i].entry_date)
----------------------------------------------------------------------------
(* Posting and unposting *)

(* C18: PostEntry on an entry that is posted already is a no-op: it raises  *)
(* no error, even when the entry's month is locked, and is_locked,          *)
(* posted_at, posted_by_user_id and locked_at keep their values, whoever    *)
(* posts and whenever; PostEntry applied twice leaves the state that        *)
(* PostEntry applied once leaves.                                           *)
C18_RepostIsNoop ==
    \A id \in DOMAIN journal_entries, now \in Times, u \in Users :
        LET r1 == post_journal_entry(DB, id, now, u, TRUE)
        IN  /\ journal_entries[id].is_locked
                 => r1.err = "ok" /\ r1.id = id /\ r1.db = DB
            /\ \A now2 \in Times, u2 \in Users :
                  LET r2 == post_journal_entry(r1.db, id, now2, u2, TRUE)
                  IN  r2.db = r1.db /\ r2.err = r1.err

\* a PostEntry call has just returned without error on an entry of a locked
\* month: the entry was posted before the call
C18_Witness ==
    /\ last.op = "post" /\ last.err = "ok"
    /\ last.id \in DOMAIN journal_entries
    /\ journal_entries[last.id].is_locked
    /\ MonthLocked(journal_entries[last.id].entry_date)

(* C19: for a draft entry in an unlocked month, PostEntry followed by       *)
(* UnpostEntry returns the entry to its draft state: is_locked is false,    *)
(* posted_at, posted_by_user_id and locked_at are cleared, and its lines,   *)
(* date, reference and entry_no are as before; UnpostEntry on an entry      *)
(* that is a draft already changes nothing.                                 *)
C19_PostUnpostRestoresDraft ==
    \A id \in DOMAIN journal_entries :
        ~journal_entries[id].is_locked
        => /\ LET u == unpost_journal_entry(DB, id, TRUE)
              IN  u.err = "ok" /\ u.db = DB
           /\ ~MonthLocked(journal_entries[id].entry_date)
                 => \A now \in Times, by \in Users :
                       LET p == post_journal_entry(DB, id, now, by, TRUE)
                           q == unpost_journal_entry(p.db, id, TRUE)
                           e == q.db.je[id]
                       IN  /\ p.err = "ok" /\ p.db.je[id].is_locked
                           /\ q.err = "ok"
                           /\ ~e.is_locked
                           /\ e.posted_at = NULL /\ e.posted_by_user_id = NULL
                           /\ e.locked_at = NULL
                           /\ e.lines = journal_entries[id].lines
                           /\ e.entry_date = journal_entries[id].entry_date
                           /\ e.reference_no = journal_entries[id].reference_no
                           /\ e.entry_no = journal_entries[id].entry_no
                           /\ q.db = DB

\* an UnpostEntry call has just returned an entry to draft that had been
\* posted: a posted reversal of it exists
C19_Witness ==
    /\ last.op = "unpost" /\ last.err = "ok"
    /\ last.id \in DOMAIN journal_entries
    /\ ~journal_entries[last.id].is_locked
    /\ journal_entries[last.id].posted_at = NULL
    /\ ~MonthLocked(journal_entries[last.id].entry_date)
    /\ \E r \in DOMAIN journal_entries :
          /\ journal_entries[r].source_id = IntStr(last.id)
          /\ journal_entries[r].is_locked

----------------------------------------------------------------------------
(* Reversal *)

NetOnAccount(e, a) == SumDebit(OnAccount(e.lines, a)) - SumCredit(OnAccount(e.lines, a))

IsMirror(src, rev) ==
    /\ Len(rev.lines) = Len(src.lines)
    /\ \A k \in 1..Len(src.lines) :
          /\ rev.lines[k].account_id = src.lines[k].account_id
          /\ rev.lines[k].debit = src.lines[k].credit
          /\ rev.lines[k].credit = src.lines[k].debit
    /\ \A a \in DOMAIN GLAccounts : NetOnAccount(src, a) + NetOnAccount(rev, a) = 0

(* C9: for any posted entry E whose reversal date falls in an unlocked      *)
(* month, ReverseEntry(E) creates a new posted entry that has one line per  *)
(* line of E, on the same account, with debit and credit swapped, so that   *)
(* per account the debits minus credits of both entries sum to zero; E is   *)
(* left unchanged and still posted.                                         *)
C9_ReversalMirrors ==
    \A id \in DOMAIN journal_entries, as_of \in AsOfInputs :
        (journal_entries[id].is_locked
           /\ ~MonthLocked(RevDate(journal_entries[id], as_of)))
        => LET r == reverse_journal_entry(DB, id, as_of, TRUE)
           IN  /\ r.err = "ok"
               /\ r.id \notin DOMAIN journal_entries
               /\ DOMAIN r.db.je = DOMAIN journal_entries \cup {r.id}
               /\ r.db.je[r.id].is_locked
               /\ r.db.je[r.id].entry_date = RevDate(journal_entries[id], as_of)
               /\ IsMirror(journal_entries[id], r.db.je[r.id])
               /\ r.db.je[id] = journal_entries[id]

\* a ReverseEntry call has just returned a posted mirror of a posted entry,
\* dated by as_of in another month than its source
C9_Witness ==
    /\ last.op = "reverse" /\ last.err = "ok"
    /\ last.id \in DOMAIN journal_entries
    /\ \E id \in DOMAIN journal_entries :
          /\ journal_entries[last.id].source_id = IntStr(id)
          /\ journal_entries[id].is_locked
          /\ journal_entries[last.id].is_locked
          /\ journal_entries[last.id].entry_date # journal_entries[id].entry_date
          /\ IsMirror(journal_entries[id], journal_entries[last.id])
----------------------------------------------------------------------------
(* Closing a month: what the closing entry should hold *)

SystemModules == {Str("opening", 0), Str("closing", 0), Str("reversal", 0)}

InMonth(d, y, m) == d.y = y /\ d.m = m

\* the posted entries dated in the month that no system module wrote
PostedNonSystem(y, m) ==
    {i \in DOMAIN journal_entries :
        /\ journal_entries[i].is_locked
        /\ InMonth(journal_entries[i].entry_date, y, m)
        /\ journal_entries[i].source_module \notin SystemModules}

\* credits minus debits on income accounts, less debits minus credits on
\* expense accounts, over the lines ls
RECURSIVE NetIncomeOfLines(_)
NetIncomeOfLines(ls) ==
    IF ls = <<>> THEN 0
    ELSE LET l == ls[1]
             t == GLAccounts[l.account_id].type
         IN  (IF t = "income" THEN l.credit - l.debit
              ELSE IF t = "expense" THEN -(l.debit - l.credit)
              ELSE 0) + NetIncomeOfLines(Tail(ls))

RECURSIVE NetIncome(_)
NetIncome(ids) ==
    IF ids = {} THEN 0
    ELSE LET i == CHOOSE i \in ids : TRUE
         IN  NetIncomeOfLines(journal_entries[i].lines) + NetIncome(ids \ {i})

\* the equity line of a closing entry: credit counted positive, debit
\* negative, zero if the entry has no line on the equity account
EquityAmount(e, equity_account_id) ==
    SumCredit(OnAccount(e.lines, equity_account_id))
        - SumDebit(OnAccount(e.lines, equity_account_id))

ClosedOk == last.op = "close" /\ last.err = "ok"

(* C6: after a successful ClosePeriod(y, m, equityAcct) the equity line     *)
(* amount of the closing entry (credit positive, debit negative, zero if    *)
(* absent) equals the income accounts' credits minus debits less the        *)
(* expense accounts' debits minus credits, over the posted non-system lines *)
(* dated in the month.                                                      *)
C6_EquityIsNetIncome ==
    ClosedOk =>
        EquityAmount(journal_entries[last.id], last.arg[3])
            = NetIncome(PostedNonSystem(last.arg[1], last.arg[2]))

(* C7: the closing entry that a successful ClosePeriod produces has the     *)
(* lines and amounts that the posted entries of the month give once every   *)
(* entry whose source_module is opening, closing or reversal is left out:   *)
(* such entries do not change it.                                           *)
C7_SystemEntriesIgnored ==
    ClosedOk =>
        LET ids == PostedNonSystem(last.arg[1], last.arg[2])
            lines == CloseLines(journal_entries, ids,
                                AggregatedAccounts(journal_entries, ids))
        IN  journal_entries[last.id].lines
                = StoredLines(ClosingEntryLines(lines, last.arg[3]))

\* the posted entries dated in the month
PostedInMonth(y, m) ==
    {i \in DOMAIN journal_entries :
        journal_entries[i].is_locked /\ InMonth(journal_entries[i].entry_date, y, m)}

\* debits minus credits on account a over the lines of the entries ids
RECURSIVE NetOfEntries(_, _)
NetOfEntries(ids, a) ==
    IF ids = {} THEN 0
    ELSE LET i == CHOOSE i \in ids : TRUE
         IN  NetOnAccount(journal_entries[i], a) + NetOfEntries(ids \ {i}, a)

(* C16: after a successful ClosePeriod(y, m) every income account and every *)
(* expense account has net zero for the month: debits minus credits over    *)
(* all posted lines dated in the month, those of the closing entry just     *)
(* created included, sum to zero on each such account, whatever the sign of *)
(* the account's activity before the close.                                 *)
C16_ClosedAccountsNetZero ==
    ClosedOk =>
        \A a \in DOMAIN GLAccounts :
            GLAccounts[a].type \in {"income", "expense"}
            => NetOfEntries(PostedInMonth(last.arg[1], last.arg[2]), a) = 0

\* the calendar: days of each month, February of a leap year apart
DaysOfMonth(y, m) ==
    IF m = 2 /\ (y % 400 = 0 \/ (y % 4 = 0 /\ y % 100 # 0)) THEN 29
    ELSE <<31, 28, 31, 30, 31, 30, 31, 31, 30, 31, 30, 31>>[m]

(* C17: a successful ClosePeriod(y, m) creates exactly one new entry, which *)
(* is posted, dated on the last calendar day of the month, with reference   *)
(* CLOSE-YYYYMM and source_module closing, leaves the entries that existed  *)
(* as they were, and turns the month's period lock from unlocked to locked; *)
(* in the resulting state PostEntry on any draft entry dated in that month  *)
(* fails with the period-locked error.                                      *)
C17_CloseCreatesPostedEntryThenLocks ==
    [][(last'.op = "close" /\ last'.err = "ok")
          => LET y == last'.arg[1]
                 m == last'.arg[2]
                 id == last'.id
             IN  /\ id \notin DOMAIN journal_entries
                 /\ DOMAIN journal_entries' = DOMAIN journal_entries \cup {id}
                 /\ \A i \in DOMAIN journal_entries :
                       journal_entries'[i] = journal_entries[i]
                 /\ journal_entries'[id].is_locked
                 /\ journal_entries'[id].entry_date = Date(y, m, DaysOfMonth(y, m))
                 /\ journal_entries'[id].reference_no = CloseRef(y, m)
                 /\ journal_entries'[id].source_module = Str("closing", 0)
                 /\ ~MonthLocked(Date(y, m, 1))
                 /\ gl_period_locks'[Date(y, m, 1)]
                 /\ \A i \in DOMAIN journal_entries :
                       (~journal_entries[i].is_locked
                          /\ InMonth(journal_entries[i].entry_date, y, m))
                       => post_journal_entry(DB', i, utcnow, NULL, TRUE).err = "period_locked"
      ]_vars

\* a ClosePeriod call has just succeeded on a month that holds a draft entry
C17_Witness ==
    /\ ClosedOk
    /\ journal_entries[last.id].is_locked
    /\ MonthLocked(Date(last.arg[1], last.arg[2], 1))
    /\ \E i \in DOMAIN journal_entries :
          /\ ~journal_entries[i].is_locked
          /\ InMonth(journal_entries[i].entry_date, last.arg[1], last.arg[2])

----------------------------------------------------------------------------
(* Reclosing a month twice in a row *)

HasPostedReversal(id) ==
    \E r \in DOMAIN journal_entries :
        /\ journal_entries[r].source_module = Str("reversal", 0)
        /\ journal_entries[r].source_id = IntStr(id)
        /\ journal_entries[r].is_locked

\* the posted closing entries of the month that have no posted reversal
UnreversedClosings(y, m) ==
    {i \in DOMAIN journal_entries :
        /\ journal_entries[i].reference_no = CloseRef(y, m)
        /\ journal_entries[i].is_locked
        /\ ~HasPostedReversal(i)}

\* the state two successful ReclosePeriod calls in a row must leave
TwiceReclosed ==
    /\ last.err = "ok"
    /\ UnreversedClosings(last.arg[1], last.arg[2]) = {last.id}
    /\ last.previd \in DOMAIN journal_entries
    /\ last.previd # last.id
    /\ journal_entries[last.previd].reference_no = CloseRef(last.arg[1], last.arg[2])
    /\ HasPostedReversal(last.previd)

(* C8 as stated: ReclosePeriod called twice in a row for the same month     *)
(* succeeds both times, so a ReclosePeriod call never fails, and the second *)
(* call leaves exactly one posted closing entry of the month without a      *)
(* posted reversal, the closing entry of the first call having one.         *)
C8_RecloseTwiceSucceeds ==
    /\ last.op = "reclose" => last.err = "ok"
    /\ (last.op = "reclose" /\ last.again) => TwiceReclosed

(* C8 amended: if a ReclosePeriod call succeeds, the same call made again   *)
(* with nothing in between succeeds too and leaves exactly one posted       *)
(* closing entry of the month without a posted reversal; the closing entry  *)
(* of the first call has a posted reversal.                                 *)
C8_RecloseAgainSucceeds ==
    (last.op = "reclose" /\ last.again) => TwiceReclosed

\* the second of two ReclosePeriod calls in a row has just returned
C8_Witness ==
    /\ last.op = "reclose" /\ last.again /\ last.err = "ok"
    /\ last.previd \in DOMAIN journal_entries
    /\ last.id \in DOMAIN journal_entries
    /\ journal_entries[last.id].is_locked
----------------------------------------------------------------------------
(* Closing a month that was closed before *)

\* the posted entries with reference CLOSE-YYYYMM
PostedClosings(y, m) ==
    {i \in DOMAIN journal_entries :
        journal_entries[i].reference_no = CloseRef(y, m) /\ journal_entries[i].is_locked}

----------------------------------------------------------------------------
(* Reopening a month *)

(* C20: ReopenPeriod(y, m) changes only the month's period-lock row, which  *)
(* it sets to unlocked: it never fails, with or without a close before it,  *)
(* it leaves every journal entry as it was, so that closing entries stay    *)
(* posted and unreversed, it leaves the rows of other months alone, and     *)
(* applied once more it changes nothing.                                    *)
C20_ReopenOnlyUnlocks ==
    [][last'.op = "reopen"
          => LET first == Date(last'.arg[1], last'.arg[2], 1)
             IN  /\ last'.err = "ok"
                 /\ journal_entries' = journal_entries
                 /\ je_id_seq' = je_id_seq /\ je_entry_no_seq' = je_entry_no_seq
                 /\ gl_accounts' = gl_accounts
                 /\ DOMAIN gl_period_locks' = DOMAIN gl_period_locks \cup {first}
                 /\ gl_period_locks'[first] = FALSE
                 /\ \A d \in DOMAIN gl_period_locks :
                       d # first => gl_period_locks'[d] = gl_period_locks[d]
                 /\ reopen_period(DB', last'.arg[1], last'.arg[2]) = DB'
      ]_vars

\* a ReopenPeriod call has just unlocked a month whose closing entry is
\* posted and has no reversal, next to the lock row of another month
C20_Witness ==
    /\ last.op = "reopen" /\ last.err = "ok"
    /\ ~MonthLocked(Date(last.arg[1], last.arg[2], 1))
    /\ UnreversedClosings(last.arg[1], last.arg[2]) # {}
    /\ Cardinality(DOMAIN gl_period_locks) > 1

----------------------------------------------------------------------------
(* Connections.  SessionLocal is bound to the engine (db.py:13-14), whose    *)
(* pool is the default QueuePool: a Session takes the connection that has   *)
(* been idle longest when it first executes a statement of a transaction,   *)
(* opening a new one if none is idle, and gives it back at commit, rollback *)
(* and close.  A PostgreSQL advisory lock belongs to the connection that    *)
(* took it and survives its transactions.                                   *)

Connections == Len(pool) + Cardinality({t \in Sessions : session[t].conn # NoConn})

\* the pool as seen by the Session of request s
PX(s) == [pool |-> pool, conn |-> session[s].conn]

Checkout(P) ==
    IF P.conn # NoConn THEN P
    ELSE IF P.pool # <<>> THEN [pool |-> Tail(P.pool), conn |-> Head(P.pool)]
    ELSE [pool |-> <<>>, conn |-> Connections + 1]

Release(P) ==
    IF P.conn = NoConn THEN P
    ELSE [pool |-> Append(P.pool, P.conn), conn |-> NoConn]

\* db.commit() followed by db.refresh(je)
CommitRefresh(P) == Checkout(Release(P))

RECURSIVE CommitRefreshTimes(_, _)
CommitRefreshTimes(P, n) ==
    IF n = 0 THEN P ELSE CommitRefreshTimes(CommitRefresh(P), n - 1)

\* pg_try_advisory_lock(k) on connection c
pg_try_advisory_lock(adv, c, k) ==
    IF k \notin DOMAIN adv
        THEN [got |-> TRUE, adv |-> adv @@ (k :> [holder |-> c, count |-> 1])]
    ELSE IF adv[k].holder = c
        THEN [got |-> TRUE, adv |-> [adv EXCEPT ![k].count = @ + 1]]
    ELSE [got |-> FALSE, adv |-> adv]

\* pg_advisory_unlock(k) on connection c
pg_advisory_unlock(adv, c, k) ==
    IF k \in DOMAIN adv /\ adv[k].holder = c
        THEN IF adv[k].count = 1
                 THEN [x \in DOMAIN adv \ {k} |-> adv[x]]
                 ELSE [adv EXCEPT ![k].count = @ - 1]
    ELSE adv

_try_lock_month(adv, c, year, month) ==
    pg_try_advisory_lock(adv, c, _period_lock_key(year, month))

_unlock_month(adv, c, year, month) ==
    pg_advisory_unlock(adv, c, _period_lock_key(year, month))

\* how many times the advisory lock of the month is held
LockCount(adv, year, month) ==
    IF _period_lock_key(year, month) \in DOMAIN adv
    THEN adv[_period_lock_key(year, month)].count ELSE 0

----------------------------------------------------------------------------
(* Calls of concurrent requests, one step per transaction *)

UnchangedLedger ==
    UNCHANGED <<gl_accounts, gl_account_id_seq, journal_entries, gl_period_locks,
                je_id_seq, je_entry_no_seq>>

Returns(s, P, op, arg, err, id) ==
    /\ last' = Outcome(op, arg, err, id)
    /\ session' = [session EXCEPT ![s] = Idle]
    /\ pool' = Release(P).pool

Args(s) == <<session[s].y, session[s].m, session[s].eq>>

\* create_journal_entry up to db.add(je); db.flush()
CreateFlush(s, entry_date, lines) ==
    /\ session[s].pc = "idle"
    /\ je_id_seq < MaxEntries
    /\ Cardinality(UserEntries) < MaxUser
    /\ LET P == Checkout(PX(s))
           r == create_journal_entry(DB, entry_date, NullStr, NullStr, NullStr,
                                     lines, TRUE)
       IN  IF r.err \notin {"ok", "db_error"}
           THEN /\ Returns(s, P, "create", <<>>, r.err, 0)
                /\ UnchangedLedger
           ELSE /\ je_id_seq' = r.db.id_seq
                /\ je_entry_no_seq' = r.db.no_seq
                /\ session' = [session EXCEPT ![s] =
                       [Idle EXCEPT !.pc = "create_commit", !.op = "create",
                                    !.conn = P.conn, !.err = r.err,
                                    !.id = r.db.id_seq,
                                    !.pending = IF r.err = "ok"
                                                THEN <<r.db.je[r.id]>> ELSE <<>>,
                                    !.seen = DOMAIN journal_entries]]
                /\ pool' = P.pool
                /\ UNCHANGED <<gl_accounts, gl_account_id_seq, journal_entries,
                               gl_period_locks, last>>
    /\ UNCHANGED advisory

\* create_journal_entry from the lines to its return
CreateCommit(s) ==
    /\ session[s].pc = "create_commit"
    /\ IF session[s].err = "ok"
       THEN /\ journal_entries' =
                   journal_entries @@ (session[s].id :> session[s].pending[1])
            /\ Returns(s, CommitRefresh(PX(s)), "create", <<>>, "ok", session[s].id)
       ELSE /\ UNCHANGED journal_entries
            /\ Returns(s, Release(PX(s)), "create", <<>>, session[s].err, 0)
    /\ UNCHANGED <<gl_accounts, gl_account_id_seq, gl_period_locks, je_id_seq,
                   je_entry_no_seq, advisory>>

PostCall(s, je_id) ==
    /\ session[s].pc = "idle"
    /\ LET r == post_journal_entry(DB, je_id, utcnow, NULL, TRUE)
           P == Checkout(PX(s))
       IN  /\ Commit(r.db)
           /\ Returns(s, IF r.db # DB THEN CommitRefresh(P) ELSE P,
                      "post", <<>>, r.err, r.id)
    /\ UNCHANGED advisory

\* close_period and reclose_period to their first statement
TryLockCall(s, op, y, m, eq) ==
    /\ session[s].pc = "idle"
    /\ LET P == Checkout(PX(s))
           t == _try_lock_month(advisory, P.conn, y, m)
       IN  IF t.got
           THEN /\ LockCount(t.adv, y, m) <= MaxLockCount
                /\ advisory' = t.adv
                /\ session' = [session EXCEPT ![s] =
                       [Idle EXCEPT !.pc = IF op = "close" THEN "close_create"
                                           ELSE "reclose_reopen",
                                    !.op = op, !.y = y, !.m = m, !.eq = eq,
                                    !.conn = P.conn]]
                /\ pool' = P.pool
                /\ UNCHANGED last
           ELSE /\ Returns(s, P, op, <<y, m, eq>>, "busy", 0)
                /\ UNCHANGED advisory
    /\ UnchangedLedger

\* close_period from its try to the return of create_journal_entry
CloseCreate(s) ==
    /\ session[s].pc = "close_create"
    /\ LET r == close_create(DB, session[s].y, session[s].m, session[s].eq, TRUE)
           P == PX(s)
           Q == IF r.err = "ok" THEN CommitRefresh(P)
                ELSE IF r.err = "db_error" THEN Release(P) ELSE P
       IN  /\ r.db.id_seq <= MaxEntries
           /\ Commit(r.db)
           /\ session' = [session EXCEPT ![s].pc = IF r.err = "ok" THEN "close_post"
                                                   ELSE "close_finally",
                                         ![s].err = r.err, ![s].id = r.id,
                                         ![s].conn = Q.conn]
           /\ pool' = Q.pool
    /\ UNCHANGED <<advisory, last>>

\* close_period: post_journal_entry(db, je.id)
ClosePost(s) ==
    /\ session[s].pc = "close_post"
    /\ LET r == post_journal_entry(DB, session[s].id, utcnow, NULL, TRUE)
           P == PX(s)
           Q == IF r.db # DB THEN CommitRefresh(P) ELSE P
       IN  /\ Commit(r.db)
           /\ session' = [session EXCEPT ![s].pc = IF r.err = "ok" THEN "close_setlock"
                                                   ELSE "close_finally",
                                         ![s].err = r.err,
                                         ![s].conn = Q.conn]
           /\ pool' = Q.pool
    /\ UNCHANGED <<advisory, last>>

\* close_period: _set_period_lock(db, first, True)
CloseSetLock(s) ==
    /\ session[s].pc = "close_setlock"
    /\ Commit(_set_period_lock(DB, Date(session[s].y, session[s].m, 1), TRUE))
    /\ LET Q == Release(Checkout(PX(s)))
       IN  /\ session' = [session EXCEPT ![s].pc = "close_finally",
                                         ![s].conn = Q.conn]
           /\ pool' = Q.pool
    /\ UNCHANGED <<advisory, last>>

\* close_period: its finally clause and its return, to the API or to
\* reclose_period
CloseFinally(s) ==
    /\ session[s].pc = "close_finally"
    /\ LET P == Checkout(PX(s))
       IN  /\ advisory' = _unlock_month(advisory, P.conn, session[s].y, session[s].m)
           /\ IF session[s].nested
              THEN /\ session' = [session EXCEPT ![s].pc = "reclose_finally",
                                                 ![s].nested = FALSE,
                                                 ![s].conn = P.conn]
                   /\ pool' = P.pool
                   /\ UNCHANGED last
              ELSE Returns(s, P, "close", Args(s), session[s].err,
                           IF session[s].err = "ok" THEN session[s].id ELSE 0)
    /\ UnchangedLedger

\* reclose_period: reopen_period(db, year, month)
RecloseReopen(s) ==
    /\ session[s].pc = "reclose_reopen"
    /\ Commit(reopen_period(DB, session[s].y, session[s].m))
    /\ LET Q == Release(Checkout(PX(s)))
       IN  /\ session' = [session EXCEPT ![s].pc = "reclose_reverse",
                                         ![s].conn = Q.conn]
           /\ pool' = Q.pool
    /\ UNCHANGED <<advisory, last>>

\* reclose_period: closing_ids and the loop that reverses them; every
\* reversal commits and refreshes twice (create, post)
RecloseReverse(s) ==
    /\ session[s].pc = "reclose_reverse"
    /\ LET y == session[s].y
           m == session[s].m
           r == reverse_closings(DB, ClosingIds(DB, y, m),
                                 Date(y, m, MonthRange(y, m)), TRUE)
           Q == CommitRefreshTimes(Checkout(PX(s)), 2 * (r.db.id_seq - je_id_seq))
       IN  /\ r.db.id_seq <= MaxEntries
           /\ Commit(r.db)
           /\ session' = [session EXCEPT ![s].pc = IF r.err = "ok"
                                                   THEN "reclose_close"
                                                   ELSE "reclose_finally",
                                         ![s].err = r.err,
                                         ![s].conn = Q.conn]
           /\ pool' = Q.pool
    /\ UNCHANGED <<advisory, last>>

\* reclose_period: the first statement of the close_period it calls
RecloseClose(s) ==
    /\ session[s].pc = "reclose_close"
    /\ LET P == Checkout(PX(s))
           t == _try_lock_month(advisory, P.conn, session[s].y, session[s].m)
       IN  /\ LockCount(t.adv, session[s].y, session[s].m) <= MaxLockCount
           /\ advisory' = t.adv
           /\ session' = [session EXCEPT ![s].pc = IF t.got THEN "close_create"
                                                   ELSE "reclose_finally",
                                         ![s].nested = t.got,
                                         ![s].err = IF t.got THEN "ok" ELSE "busy",
                                         ![s].conn = P.conn]
           /\ pool' = P.pool
    /\ UnchangedLedger
    /\ UNCHANGED last

\* reclose_period: its finally clause and its return
RecloseFinally(s) ==
    /\ session[s].pc = "reclose_finally"
    /\ LET P == Checkout(PX(s))
       IN  /\ advisory' = _unlock_month(advisory, P.conn, session[s].y, session[s].m)
           /\ Returns(s, P, "reclose", Args(s), session[s].err,
                      IF session[s].err = "ok" THEN session[s].id ELSE 0)
    /\ UnchangedLedger

\* request bodies of POST /gl/journal: income 20.00 received in cash, and a
\* body whose amounts round to zero when stored
ConcBodies ==
    { <<Line(1, 20000, 0), Line(2, 0, 20000)>>,
      <<Line(1, 4, 0), Line(2, 0, 4)>> }

NextConc ==
    \/ \E s \in Sessions, y \in Years, ls \in ConcBodies :
          CreateFlush(s, Date(y, 8, 15), ls)
    \/ \E s \in Sessions : CreateCommit(s)
    \/ \E s \in Sessions, id \in DOMAIN journal_entries : PostCall(s, id)
    \/ \E s \in Sessions, y \in Years, m \in CloseMonths :
          TryLockCall(s, "close", y, m, 4)
    \/ \E s \in Sessions, y \in Years, m \in CloseMonths :
          TryLockCall(s, "reclose", y, m, 4)
    \/ \E s \in Sessions : CloseCreate(s)
    \/ \E s \in Sessions : ClosePost(s)
    \/ \E s \in Sessions : CloseSetLock(s)
    \/ \E s \in Sessions : CloseFinally(s)
    \/ \E s \in Sessions : RecloseReopen(s)
    \/ \E s \in Sessions : RecloseReverse(s)
    \/ \E s \in Sessions : RecloseClose(s)
    \/ \E s \in Sessions : RecloseFinally(s)

SpecConc == Init /\ [][NextConc]_vars
----------------------------------------------------------------------------
(* Calls whose transactions interleave with month locks set by another      *)
(* request                                                                  *)

\* reverse_journal_entry to the return of its create_journal_entry
ReverseCreate(s, je_id, as_of) ==
    /\ session[s].pc = "idle"
    /\ je_id_seq < MaxEntries
    /\ LET r == reverse_create(DB, je_id, as_of, TRUE)
           P == Checkout(PX(s))
       IN  /\ Commit(r.db)
           /\ IF r.err = "ok"
              THEN LET Q == CommitRefresh(P)
                   IN  /\ session' = [session EXCEPT ![s] =
                              [Idle EXCEPT !.pc = "reverse_post", !.op = "reverse",
                                           !.conn = Q.conn, !.id = r.id]]
                       /\ pool' = Q.pool
                       /\ UNCHANGED last
              ELSE Returns(s, P, "reverse", <<>>, r.err, 0)
    /\ UNCHANGED advisory

\* reverse_journal_entry: post_journal_entry(db, rev.id) and the return
ReversePost(s) ==
    /\ session[s].pc = "reverse_post"
    /\ LET r == post_journal_entry(DB, session[s].id, utcnow, NULL, TRUE)
           P == Checkout(PX(s))
       IN  /\ Commit(r.db)
           /\ Returns(s, IF r.db # DB THEN CommitRefresh(P) ELSE P,
                      "reverse", <<>>, r.err, r.id)
    /\ UNCHANGED advisory

\* PUT and DELETE /gl/locks/{year}-{month} as a request of its own
LockCall(s, y, m, locked) ==
    /\ session[s].pc = "idle"
    /\ Commit(_set_period_lock(DB, Date(y, m, 1), locked))
    /\ Returns(s, Checkout(PX(s)),
               IF locked THEN "lock_month" ELSE "unlock_month", <<y, m>>, "ok", 0)
    /\ UNCHANGED advisory

\* request bodies of POST /gl/journal: income 20.00 received in cash
AtomicBodies == { <<Line(1, 20000, 0), Line(2, 0, 20000)>> }

NextAtomic ==
    \/ \E s \in Sessions, y \in Years, ls \in AtomicBodies :
          CreateFlush(s, Date(y, 8, 15), ls)
    \/ \E s \in Sessions : CreateCommit(s)
    \/ \E s \in Sessions, id \in DOMAIN journal_entries : PostCall(s, id)
    \/ \E s \in Sessions, id \in DOMAIN journal_entries : ReverseCreate(s, id, NoDate)
    \/ \E s \in Sessions : ReversePost(s)
    \/ \E s \in Sessions, y \in Years, m \in CloseMonths, b \in BOOLEAN :
          LockCall(s, y, m, b)
    \/ \E s \in Sessions, y \in Years, m \in CloseMonths :
          TryLockCall(s, "close", y, m, 4)
    \/ \E s \in Sessions : CloseCreate(s)
    \/ \E s \in Sessions : ClosePost(s)
    \/ \E s \in Sessions : CloseSetLock(s)
    \/ \E s \in Sessions : CloseFinally(s)

SpecAtomic == Init /\ [][NextAtomic]_vars

\* request s is inside close_period, between the commit of its closing
\* entry and the commit of the month's lock row
ClosingCommitted(s, i) ==
    /\ session[s].op = "close"
    /\ session[s].pc \in {"close_post", "close_setlock"}
    /\ session[s].id = i

(* C12: the effects of ClosePeriod become visible to other sessions all     *)
(* together or not at all: no committed state holds a closing entry that is *)
(* a draft, whether its call is still running or has failed, nor a closing  *)
(* entry that its running call has posted while the month's lock row does   *)
(* not yet say locked.                                                      *)
C12_CloseAllOrNothing ==
    \A i \in DOMAIN journal_entries :
        journal_entries[i].source_module = Str("closing", 0)
        => /\ journal_entries[i].is_locked
           /\ (\E s \in Sessions : ClosingCommitted(s, i))
                 => MonthLocked(journal_entries[i].entry_date)

(* C13: ReverseEntry either yields a new entry that is persisted and        *)
(* posted, or fails and leaves no new entry: a ReverseEntry call returns    *)
(* an error only from a state without a new entry of its own, so every      *)
(* draft entry with source_module reversal belongs to a call that has not   *)
(* returned yet.                                                            *)
C13_NoDraftReversalLeft ==
    \A i \in DOMAIN journal_entries :
        (journal_entries[i].source_module = Str("reversal", 0)
           /\ ~journal_entries[i].is_locked)
        => \E s \in Sessions : session[s].pc = "reverse_post" /\ session[s].id = i

----------------------------------------------------------------------------
(* The advisory lock of a month *)

\* request s is inside close_period or reclose_period for the month, past
\* the try-lock and before its return
InCriticalSection(s, y, m) ==
    /\ session[s].op \in {"close", "reclose"}
    /\ session[s].pc # "idle"
    /\ session[s].y = y /\ session[s].m = m

(* C4: for any month at most one ClosePeriod or ReclosePeriod call is       *)
(* inside its critical section at a time: of two overlapping calls for the  *)
(* same month at most one proceeds, the other having failed with the busy   *)
(* error at its first statement.                                            *)
C4_OneCallPerMonth ==
    \A s \in Sessions, t \in Sessions, y \in Years, m \in CloseMonths :
        (InCriticalSection(s, y, m) /\ InCriticalSection(t, y, m)) => s = t

(* C5: every ClosePeriod or ReclosePeriod call that acquired the lock of a  *)
(* month has fully released it when it returns, so that once no call for    *)
(* the month is in progress the lock is free, and a call is rejected as     *)
(* busy only while another call for the month is in progress.               *)
C5_LockReleased ==
    /\ \A y \in Years, m \in CloseMonths :
          (\A s \in Sessions : ~InCriticalSection(s, y, m))
          => LockCount(advisory, y, m) = 0
    /\ (last.op \in {"close", "reclose"} /\ last.err = "busy")
          => \E s \in Sessions : InCriticalSection(s, last.arg[1], last.arg[2])
----------------------------------------------------------------------------
(* Entry numbers *)

\* the requests whose create_journal_entry has flushed its entry and not
\* yet committed it
Creating == {s \in Sessions : session[s].pc = "create_commit" /\ session[s].err = "ok"}

(* C10: across any interleaving of CreateEntry calls, failed ones included, *)
(* the entry_no values of the persisted entries are pairwise distinct; no   *)
(* value is reused: every value given to a persisted or still uncommitted   *)
(* entry lies at or below the sequence, which hands out only larger ones,   *)
(* and two such entries never share one; and an entry whose creation        *)
(* started after another entry was persisted has a strictly greater         *)
(* entry_no than that entry.                                                *)
C10_EntryNoDistinctIncreasing ==
    /\ \A i \in DOMAIN journal_entries, j \in DOMAIN journal_entries :
          journal_entries[i].entry_no = journal_entries[j].entry_no => i = j
    /\ \A i \in DOMAIN journal_entries : journal_entries[i].entry_no <= je_entry_no_seq
    /\ \A s \in Creating :
          /\ session[s].pending[1].entry_no <= je_entry_no_seq
          /\ \A i \in DOMAIN journal_entries :
                journal_entries[i].entry_no # session[s].pending[1].entry_no
          /\ \A t \in Creating :
                session[t].pending[1].entry_no = session[s].pending[1].entry_no => s = t
          /\ \A i \in session[s].seen :
                journal_entries[i].entry_no < session[s].pending[1].entry_no

\* two creations are in flight at once, one of them started after an entry
\* was persisted and after a creation that failed had used up a number
C10_Witness ==
    /\ Creating = Sessions
    /\ \E s \in Sessions : session[s].seen # {}
    /\ je_entry_no_seq > Cardinality(DOMAIN journal_entries) + Cardinality(Creating)
----------------------------------------------------------------------------
(* The lock rows of the months, written by requests that interleave *)

\* POST /gl/reopen/{year}-{month} as a request of its own
ReopenCall(s, y, m) ==
    /\ session[s].pc = "idle"
    /\ Commit(reopen_period(DB, y, m))
    /\ Returns(s, Checkout(PX(s)), "reopen", <<y, m>>, "ok", 0)
    /\ UNCHANGED advisory

NextLocks ==
    \/ \E y \in Years, ls \in AtomicBodies :
          CreateEntry(Date(y, 8, 15), NullStr, NullStr, NullStr, ls)
    \/ \E id \in DOMAIN journal_entries : PostEntry(id)
    \/ \E s \in Sessions, y \in Years, m \in CloseMonths, b \in BOOLEAN :
          LockCall(s, y, m, b)
    \/ \E s \in Sessions, y \in Years, m \in CloseMonths : ReopenCall(s, y, m)
    \/ \E s \in Sessions, y \in Years, m \in CloseMonths :
          TryLockCall(s, "close", y, m, 4)
    \/ \E s \in Sessions, y \in Years, m \in CloseMonths :
          TryLockCall(s, "reclose", y, m, 4)
    \/ \E s \in Sessions : CloseCreate(s)
    \/ \E s \in Sessions : ClosePost(s)
    \/ \E s \in Sessions : CloseSetLock(s)
    \/ \E s \in Sessions : CloseFinally(s)
    \/ \E s \in Sessions : RecloseReopen(s)
    \/ \E s \in Sessions : RecloseReverse(s)
    \/ \E s \in Sessions : RecloseClose(s)
    \/ \E s \in Sessions : RecloseFinally(s)

SpecLocks == Init /\ [][NextLocks]_vars

\* the rows of gl_period_locks whose period_month lies in the month
LockRows(y, m) == {k \in DOMAIN gl_period_locks : k.y = y /\ k.m = m}

\* the flag of the month as its rows hold it
RowFlag(y, m) == \E k \in LockRows(y, m) : gl_period_locks[k]

\* the step commits the flag for the month: it is the upsert of a lock
\* request, of a reopen request, of close_period or of the reopen inside
\* reclose_period
LockWritten(y, m, flag) ==
    \/ \E s \in Sessions : LockCall(s, y, m, flag)
    \/ ~flag /\ \E s \in Sessions : ReopenCall(s, y, m)
    \/ \E s \in Sessions :
          /\ session[s].y = y /\ session[s].m = m
          /\ \/ flag /\ CloseSetLock(s)
             \/ ~flag /\ RecloseReopen(s)

(* C21: whatever lock, close, reopen and reclose requests have run, one     *)
(* after another or interleaved, gl_period_locks holds at most one row for  *)
(* each calendar month, and _is_period_locked answers, for every day of a   *)
(* month alike, the flag that was committed last for that month: the flag   *)
(* a step commits is the answer after the step, a step that commits none    *)
(* leaves the answer as it was, and the answer is false for a month         *)
(* without a row.                                                           *)
C21_OneLockRowPerMonth ==
    /\ [](\A y \in Years, m \in Months :
             /\ Cardinality(LockRows(y, m)) <= 1
             /\ \A d \in 1..DaysOfMonth(y, m) :
                   _is_period_locked(DB, Date(y, m, d)) = RowFlag(y, m))
    /\ [][\A y \in Years, m \in Months :
             RowFlag(y, m)' = (IF LockWritten(y, m, TRUE) THEN TRUE
                               ELSE IF LockWritten(y, m, FALSE) THEN FALSE
                               ELSE RowFlag(y, m))]_vars

\* a close_period is about to write the lock row of a month that a lock
\* request of another session has written meanwhile, after the month had
\* been closed and reopened before
C21_Witness ==
    \E s \in Sessions, y \in Years, m \in CloseMonths :
        /\ session[s].pc = "close_setlock"
        /\ session[s].y = y /\ session[s].m = m
        /\ RowFlag(y, m)
        /\ last.op = "lock_month" /\ last.arg = <<y, m>>
        /\ Cardinality(PostedClosings(y, m)) >= 2
----------------------------------------------------------------------------
(* The chart of accounts, written by requests that interleave.  Each request *)
(* reads what is committed (READ COMMITTED); the unique constraints on code  *)
(* and on name compare the texts as they are written.                        *)

\* everything but the chart of accounts, the requests and their connections
UnchangedBooksOfAccounts ==
    UNCHANGED <<journal_entries, gl_period_locks, je_id_seq, je_entry_no_seq, advisory>>

\* UNIQUE (code) and UNIQUE (name) of gl_accounts: an INSERT or UPDATE that
\* leaves row id with this code and name is refused
UniqueViolation(accts, id, code, name) ==
    \E a \in DOMAIN accts \ {id} : accts[a].code = code \/ accts[a].name = name

\* the requests that have read the chart and not yet written to it
AccountsInFlight == {s \in Sessions : session[s].pc = "account_insert"}

\* create_gl_account up to acct = GLAccount(...): the two uniqueness guards
AccountCheck(s, code, name, type_) ==
    /\ session[s].pc = "idle"
    /\ gl_account_id_seq + Cardinality(AccountsInFlight) < MaxAccounts
    /\ LET P == Checkout(PX(s))
           r == create_gl_account(gl_accounts, gl_account_id_seq, code, name, type_,
                                  FALSE, TRUE)
       IN  IF r.err # "ok"
           THEN Returns(s, P, "create_account", <<>>, r.err, 0)
           ELSE /\ session' = [session EXCEPT ![s] =
                       [Idle EXCEPT !.pc = "account_insert", !.op = "create_account",
                                    !.conn = P.conn,
                                    !.pending = <<GLAccountRow(code, name, type_, FALSE)>>]]
                /\ pool' = P.pool
                /\ UNCHANGED last
    /\ UNCHANGED <<gl_accounts, gl_account_id_seq>>
    /\ UnchangedBooksOfAccounts

\* create_gl_account from db.add(acct); db.flush() to its return
AccountInsert(s) ==
    /\ session[s].pc = "account_insert"
    /\ LET row == session[s].pending[1]
           id == gl_account_id_seq + 1
       IN  /\ gl_account_id_seq' = id
           /\ IF UniqueViolation(gl_accounts, id, row.code, row.name)
              THEN /\ UNCHANGED gl_accounts
                   /\ Returns(s, Release(PX(s)), "create_account", <<>>, "db_error", 0)
              ELSE /\ gl_accounts' = gl_accounts @@ (id :> row)
                   /\ Returns(s, CommitRefresh(PX(s)), "create_account", <<>>, "ok", id)
    /\ UnchangedBooksOfAccounts

\* update_gl_account up to _log: the lookups and the two uniqueness guards
AccountUpdateCheck(s, account_id, code, name) ==
    /\ session[s].pc = "idle"
    /\ LET P == Checkout(PX(s))
           r == update_gl_account(gl_accounts, gl_account_id_seq, account_id, code, name,
                                  "", <<>>, <<>>, TRUE)
       IN  IF r.err # "ok"
           THEN Returns(s, P, "update_account", <<>>, r.err, 0)
           ELSE /\ session' = [session EXCEPT ![s] =
                       [Idle EXCEPT !.pc = "account_update", !.op = "update_account",
                                    !.conn = P.conn, !.id = account_id,
                                    !.pending = <<r.accts[account_id].code,
                                                  r.accts[account_id].name>>]]
                /\ pool' = P.pool
                /\ UNCHANGED last
    /\ UNCHANGED <<gl_accounts, gl_account_id_seq>>
    /\ UnchangedBooksOfAccounts

\* update_gl_account from the flush in _log to its return
AccountUpdateWrite(s) ==
    /\ session[s].pc = "account_update"
    /\ LET id == session[s].id
           code == session[s].pending[1]
           name == session[s].pending[2]
       IN  IF UniqueViolation(gl_accounts, id, code, name)
           THEN /\ UNCHANGED gl_accounts
                /\ Returns(s, Release(PX(s)), "update_account", <<>>, "db_error", 0)
           ELSE /\ gl_accounts' = [gl_accounts EXCEPT ![id].code = code, ![id].name = name]
                /\ Returns(s, CommitRefresh(PX(s)), "update_account", <<>>, "ok", id)
    /\ UNCHANGED gl_account_id_seq
    /\ UnchangedBooksOfAccounts

\* request bodies of POST /gl/accounts: code, name, type
ChartBodies ==
    { <<Text("6000"), Text("rent"), "expense">>,
      <<Capitals(Text("6000")), Text("rental"), "expense">>,
      <<Text("6100"), Capitals(Text("rent")), "expense">>,
      <<Capitals(Text("1000")), Text("petty cash"), "asset">> }

\* request bodies of PATCH /gl/accounts/{id}: code, name
ChartUpdates ==
    { <<Capitals(Text("6000")), NullText>>,
      <<NullText, Text("rent")>>,
      <<Text("3000"), NullText>> }

NextAccounts ==
    \/ \E s \in Sessions, b \in ChartBodies : AccountCheck(s, b[1], b[2], b[3])
    \/ \E s \in Sessions : AccountInsert(s)
    \/ \E s \in Sessions, id \in UpdateIds, u \in ChartUpdates :
          AccountUpdateCheck(s, id, u[1], u[2])
    \/ \E s \in Sessions : AccountUpdateWrite(s)

SpecAccounts == Init /\ [][NextAccounts]_vars

(* C22: whatever CreateAccount and UpdateAccount calls have run, one after  *)
(* another or interleaved, no two accounts have codes that are equal when   *)
(* case is ignored, and no two have names that are equal when case is       *)
(* ignored.                                                                 *)
C22_NoTwoAccountsAlike ==
    \A a \in DOMAIN gl_accounts, b \in DOMAIN gl_accounts :
        (\/ lower(gl_accounts[a].code) = lower(gl_accounts[b].code)
         \/ lower(gl_accounts[a].name) = lower(gl_accounts[b].name))
        => a = b
----------------------------------------------------------------------------
(* The kinds of the errors *)

\* the class of the exception that the services raise for an outcome: every
\* raise statement of services/gl raises ValueError; a failed statement of
\* the database raises an error of SQLAlchemy
ExceptionClass(err) == IF err = "db_error" THEN "SQLAlchemyError" ELSE "ValueError"

\* the status of the response: the endpoints answer 400 to ValueError and 500
\* to any other exception
status_code(err) ==
    IF err = "ok" THEN 200
    ELSE IF ExceptionClass(err) = "ValueError" THEN 400 ELSE 500

\* what a caller has of an error beside its message
ErrorKind(err) == <<ExceptionClass(err), status_code(err)>>

\* the ways a close is rejected: validation (the month is locked, nothing to
\* close, lines that do not balance), conflict (already closed) and
\* period-locked (the closing entry cannot be posted)
RejectedCloseErrors ==
    {"close_locked", "nothing_to_close", "not_balanced", "line_not_one_sided",
     "already_closed", "period_locked"}

(* C23: when ClosePeriod or ReclosePeriod finds the lock of the month held  *)
(* by another caller, the error it returns is of a kind that no validation, *)
(* conflict or period-locked error has, so that the caller can tell busy    *)
(* from a rejected close by the kind of the error.                          *)
C23_BusyErrorDistinct ==
    (last.op \in {"close", "reclose"} /\ last.err = "busy")
    => \A e \in RejectedCloseErrors : ErrorKind(e) # ErrorKind(last.err)
----------------------------------------------------------------------------
(* A reclose that is rejected *)

(* C24: a ReclosePeriod call that is rejected after it acquired the lock of *)
(* the month leaves the ledger as it was: the period-lock flag of the month *)
(* is what it was before the call, and the call has neither created nor     *)
(* posted a reversal entry.                                                 *)
C24_RejectedRecloseChangesNothing ==
    [][(last'.op = "reclose" /\ last'.err \notin {"ok", "busy"})
          => LET first == Date(last'.arg[1], last'.arg[2], 1)
             IN  /\ _is_period_locked(DB', first) = _is_period_locked(DB, first)
                 /\ \A i \in DOMAIN journal_entries' :
                       journal_entries'[i].source_module = Str("reversal", 0)
                       => /\ i \in DOMAIN journal_entries
                          /\ journal_entries'[i] = journal_entries[i]
      ]_vars
----------------------------------------------------------------------------
(* Posting and unposting while another request locks the month.  Between    *)
(* the lock check of post_journal_entry and its commit the request holds no *)
(* lock on the row of the month, and the transactions are READ COMMITTED.   *)

\* post_journal_entry and unpost_journal_entry up to their assignments: the
\* lookups and the checks
EntryCheck(s, op, je_id) ==
    /\ session[s].pc = "idle"
    /\ LET P == Checkout(PX(s))
           r == IF op = "post" THEN post_journal_entry(DB, je_id, utcnow, NULL, TRUE)
                ELSE unpost_journal_entry(DB, je_id, TRUE)
       IN  IF r.err # "ok" \/ r.db = DB
           THEN Returns(s, P, op, <<>>, r.err, r.id)
           ELSE /\ session' = [session EXCEPT ![s] =
                       [Idle EXCEPT !.pc = "entry_commit", !.op = op,
                                    !.conn = P.conn, !.id = je_id]]
                /\ pool' = P.pool
                /\ UNCHANGED last
    /\ UnchangedLedger
    /\ UNCHANGED advisory

\* post_journal_entry and unpost_journal_entry from their assignments to
\* their return: the UPDATE of the entry, flushed in _log, and db.commit()
EntryCommit(s) ==
    /\ session[s].pc = "entry_commit"
    /\ journal_entries' =
          [journal_entries EXCEPT ![session[s].id] =
              IF session[s].op = "post" THEN Posted(@, utcnow, NULL) ELSE Unposted(@)]
    /\ Returns(s, CommitRefresh(PX(s)), session[s].op, <<>>, "ok", session[s].id)
    /\ UNCHANGED <<gl_accounts, gl_account_id_seq, gl_period_locks, je_id_seq,
                   je_entry_no_seq, advisory>>

\* the request that posts and unposts, and the request that locks and closes
Posters == {"s1"}
Lockers == {"s2"}

NextFreeze ==
    \/ \E y \in Years, ls \in AtomicBodies :
          CreateEntry(Date(y, 8, 15), NullStr, NullStr, NullStr, ls)
    \/ \E s \in Posters, id \in DOMAIN journal_entries : EntryCheck(s, "post", id)
    \/ \E s \in Posters, id \in DOMAIN journal_entries : EntryCheck(s, "unpost", id)
    \/ \E s \in Posters : EntryCommit(s)
    \/ \E s \in Lockers, y \in Years, m \in CloseMonths, b \in BOOLEAN :
          LockCall(s, y, m, b)
    \/ \E s \in Lockers, y \in Years, m \in CloseMonths :
          TryLockCall(s, "close", y, m, 4)
    \/ \E s \in Lockers : CloseCreate(s)
    \/ \E s \in Lockers : ClosePost(s)
    \/ \E s \in Lockers : CloseSetLock(s)
    \/ \E s \in Lockers : CloseFinally(s)

SpecFreeze == Init /\ [][NextFreeze]_vars

(* C25: however PostEntry and UnpostEntry calls of one request interleave   *)
(* with SetPeriodLock and ClosePeriod calls of another, no commit changes   *)
(* the posted state of an entry while the committed lock row of the month   *)
(* of its date says locked.                                                 *)
C25_NoPostingChangeUnderLock ==
    [][\A i \in DOMAIN journal_entries :
          journal_entries'[i].is_locked # journal_entries[i].is_locked
          => ~_is_period_locked(DB, journal_entries[i].entry_date)]_vars
----------------------------------------------------------------------------
(* services/gl/books.py and the views of the books *)

\* COALESCE(je.reference_no, CAST(je.entry_no AS text))
reference(e) == IF e.reference_no = NullStr THEN IntStr(e.entry_no) ELSE e.reference_no

\* vw_general_journal: one row for every journal line, of draft and posted
\* entries alike.  A row carries the id of its entry and the place of its
\* line, which the view does not show, so that rows that read the same stay
\* apart.
vw_general_journal(db) ==
    UNION { { [entry_id |-> i, line |-> k,
               date |-> db.je[i].entry_date,
               entry_no |-> db.je[i].entry_no,
               reference |-> reference(db.je[i]),
               account_code |-> GLAccounts[db.je[i].lines[k].account_id].code,
               account_title |-> GLAccounts[db.je[i].lines[k].account_id].name,
               debit |-> db.je[i].lines[k].debit,
               credit |-> db.je[i].lines[k].credit]
              : k \in DOMAIN db.je[i].lines }
            : i \in DOMAIN db.je }

\* vw_general_ledger: the same lines, with the account first; the running
\* balance is left out
vw_general_ledger(db) == vw_general_journal(db)

BOOK_VIEWS == {"general_journal", "general_ledger"}

\* je.entry_date >= :date_from AND je.entry_date <= :date_to
InRange(d, date_from, date_to) == DateLE(date_from, d) /\ DateLE(d, date_to)

\* SELECT v.* FROM <view> v JOIN journal_entries je
\*   ON je.reference_no = v.reference AND je.entry_date = v.date
\*   WHERE je.is_locked = TRUE AND <the range>
\* a comparison with a NULL reference_no is not true; every row returned
\* carries the id of the entry it was joined to, so that a view row joined
\* twice is returned twice
fetch_books_view(db, view_key, date_from, date_to) ==
    LET view == IF view_key = "general_journal" THEN vw_general_journal(db)
                ELSE vw_general_ledger(db)
    IN  { x \in [row : view, je : DOMAIN db.je] :
             /\ db.je[x.je].reference_no # NullStr
             /\ db.je[x.je].reference_no = x.row.reference
             /\ db.je[x.je].entry_date = x.row.date
             /\ db.je[x.je].is_locked
             /\ InRange(db.je[x.je].entry_date, date_from, date_to) }

\* request bodies of POST /gl/journal: with no reference_no and with the
\* number of an official receipt
BooksReferences == {NullStr, Str("OR", 1)}

NextBooks ==
    \/ \E d \in JournalDates, ref \in BooksReferences, ls \in JournalLines :
          CreateEntry(d, ref, NullStr, NullStr, ls)
    \/ \E id \in DOMAIN journal_entries : PostEntry(id)
    \/ \E id \in DOMAIN journal_entries : UnpostEntry(id)

SpecBooks == Init /\ [][NextBooks]_vars

\* the date ranges asked for: one month, and both months
BooksRanges ==
    { <<Date(y, 8, 1), Date(y, 8, 31)>> : y \in Years } \cup
    { <<Date(y, 8, 1), Date(y, 9, 30)>> : y \in Years }

\* how many of the rows returned come from line k of entry i
RowsOfLine(rows, i, k) ==
    Cardinality({x \in rows : x.row.entry_id = i /\ x.row.line = k})

(* C26: for each books view and date range, fetch_books_view returns        *)
(* exactly the rows of the journal lines of the posted entries dated in the *)
(* range: every line of a posted entry in the range is returned once, with  *)
(* or without a reference_no and whether or not another entry has the same  *)
(* reference_no and date, and no line of a draft entry or of an entry       *)
(* outside the range is returned.                                           *)
C26_BooksShowPostedLinesOnce ==
    \A view_key \in BOOK_VIEWS, range \in BooksRanges :
        LET rows == fetch_books_view(DB, view_key, range[1], range[2])
        IN  \A i \in DOMAIN journal_entries :
                \A k \in DOMAIN journal_entries[i].lines :
                    RowsOfLine(rows, i, k) =
                        IF /\ journal_entries[i].is_locked
                           /\ InRange(journal_entries[i].entry_date, range[1], range[2])
                        THEN 1 ELSE 0
----------------------------------------------------------------------------
(* services/ops_gl_sync.py: transactions of operations posted to the books *)

\* rows of the transactions table: an income of 20.00 in August and an
\* expense of 10.00 in September, neither voided, neither with a
\* reference_no
Transactions ==
    (1 :> [id |-> 1, date |-> Date(2025, 8, 15), amount |-> 20000,
           type |-> "income", voided |-> FALSE, reference_no |-> NullStr]) @@
    (2 :> [id |-> 2, date |-> Date(2025, 9, 15), amount |-> 10000,
           type |-> "expense", voided |-> FALSE, reference_no |-> NullStr])

\* the first account of a set in the order of the query, 0 for None; the
\* chart holds one active account of each kind here, so that the order by
\* code does not matter
FirstAccount(S) == IF S = {} THEN 0 ELSE CHOOSE a \in S : \A b \in S : a <= b

_first_active_cash ==
    FirstAccount({a \in DOMAIN GLAccounts : GLAccounts[a].is_active /\ GLAccounts[a].is_cash})

_first_active_by_type(t) ==
    FirstAccount({a \in DOMAIN GLAccounts : GLAccounts[a].is_active /\ GLAccounts[a].type = t})

\* the entries with source_module "ops" and source_id "tx:<id>"
SyncedEntries(db, tx_id) ==
    {i \in DOMAIN db.je : /\ db.je[i].source_module = Str("ops", 0)
                          /\ db.je[i].source_id = Str("tx", tx_id)}

\* the id of such an entry, 0 for None
_already_synced(db, tx_id) == FirstAccount(SyncedEntries(db, tx_id))

\* debit and credit account of a transaction without a category mapping
_resolve_accounts_for_tx(tx) ==
    IF tx.type = "income" THEN <<_first_active_cash, _first_active_by_type("income")>>
    ELSE IF tx.type = "expense" THEN <<_first_active_by_type("expense"), _first_active_cash>>
    ELSE <<0, 0>>

\* the result has id 0 where the function returns None, and an error where
\* it raises
ensure_tx_synced_to_gl(db, tx) ==
    LET accs == _resolve_accounts_for_tx(tx)
        c == create_journal_entry(db, tx.date,
                 IF tx.reference_no # NullStr THEN tx.reference_no ELSE Str("TX", tx.id),
                 Str("ops", 0), Str("tx", tx.id),
                 << [account_id |-> accs[1], debit |-> tx.amount, credit |-> 0, line_no |-> 1],
                    [account_id |-> accs[2], debit |-> 0, credit |-> tx.amount, line_no |-> 2] >>,
                 TRUE)
        p == post_journal_entry(c.db, c.id, utcnow, NULL, TRUE)
    IN  IF tx.voided THEN Result(db, "ok", 0)
        ELSE IF _already_synced(db, tx.id) # 0
            THEN Result(db, "ok", _already_synced(db, tx.id))
        ELSE IF tx.amount <= 0 THEN Result(db, "ok", 0)
        ELSE IF accs[1] = 0 \/ accs[2] = 0 THEN Result(db, "ok", 0)
        ELSE IF c.err # "ok" THEN Result(c.db, c.err, 0)
        ELSE IF p.err # "ok" THEN Result(p.db, p.err, 0)
        ELSE Result(p.db, "ok", c.id)

\* _sync_to_books for one transaction: ensure_tx_synced_to_gl, then commit,
\* or rollback when it raised
SyncTx(tx_id) ==
    /\ je_id_seq < MaxEntries
    /\ LET r == ensure_tx_synced_to_gl(DB, Transactions[tx_id])
       IN  /\ Commit(r.db)
           /\ last' = Outcome("sync", <<tx_id>>, r.err, r.id)
    /\ UNCHANGED <<advisory, pool, session>>

NextSync ==
    \/ \E t \in DOMAIN Transactions : SyncTx(t)
    \/ \E y \in Years, m \in Months, b \in BOOLEAN : SetPeriodLock(y, m, b)

SpecSync == Init /\ [][NextSync]_vars

(* C27: ensure_tx_synced_to_gl is idempotent for a transaction that is not  *)
(* voided and has a positive amount: after any number of calls, whatever    *)
(* the period locks, at most one journal entry has source_module ops and    *)
(* source_id tx:<id>, and whenever a call returns the id of an entry, that  *)
(* entry is posted.                                                         *)
C27_SyncIdempotent ==
    /\ \A t \in DOMAIN Transactions : Cardinality(SyncedEntries(DB, t)) <= 1
    /\ (last.op = "sync" /\ last.err = "ok" /\ last.id # 0)
          => journal_entries[last.id].is_locked
----------------------------------------------------------------------------
(* The three marks of a posted entry *)

\* the entries the trial balance takes for posted: posted_at IS NOT NULL
PostedByStamp == {i \in DOMAIN journal_entries : journal_entries[i].posted_at # NULL}

\* the entries the close and the books take for posted: is_locked = TRUE
PostedByFlag == {i \in DOMAIN journal_entries : journal_entries[i].is_locked}

(* C28: in every reachable state every journal entry has is_locked true if  *)
(* and only if its posted_at is set, and if and only if its locked_at is    *)
(* set, so that the reports that select posted entries by posted_at and the *)
(* close and the books that select them by is_locked see the same entries.  *)
C28_PostedMarksAgree ==
    /\ \A i \in DOMAIN journal_entries :
          /\ journal_entries[i].is_locked <=> journal_entries[i].posted_at # NULL
          /\ journal_entries[i].is_locked <=> journal_entries[i].locked_at # NULL
    /\ PostedByStamp = PostedByFlag

\* an UnpostEntry that ran beside a ClosePeriod of another request has just
\* committed: its entry is a draft again while the closing entry is posted
C28_Witness ==
    /\ last.op = "unpost" /\ last.err = "ok" /\ last.id \in DOMAIN journal_entries
    /\ ~journal_entries[last.id].is_locked
    /\ \E i \in DOMAIN journal_entries :
          /\ journal_entries[i].source_module = Str("closing", 0)
          /\ journal_entries[i].is_locked
    /\ \E s \in Lockers : session[s].pc # "idle"
----------------------------------------------------------------------------
(* Closing entries that stand *)

(* C29: in every state reached by CreateEntry, PostEntry, UnpostEntry,      *)
(* ReverseEntry, ClosePeriod, ReopenPeriod and ReclosePeriod calls, each    *)
(* month has at most one posted entry with reference CLOSE-YYYYMM that has  *)
(* no posted reversal.                                                      *)
C29_OneStandingClosing ==
    \A y \in Years, m \in Months : Cardinality(UnreversedClosings(y, m)) <= 1
----------------------------------------------------------------------------
(* Reversing an entry twice *)

\* the posted reversals of an entry: posted, source_module "reversal",
\* source_id the id of the entry
PostedReversals(id) ==
    {r \in DOMAIN journal_entries :
        /\ journal_entries[r].source_module = Str("reversal", 0)
        /\ journal_entries[r].source_id = IntStr(id)
        /\ journal_entries[r].is_locked}

(* C30: a posted entry has at most one posted reversal: ReverseEntry on an  *)
(* entry that has a posted reversal already creates no second one, so that  *)
(* on every account the entry and its posted reversals together amount to   *)
(* the entry's own amount or to zero.                                       *)
C30_AtMostOnePostedReversal ==
    \A i \in DOMAIN journal_entries :
        /\ Cardinality(PostedReversals(i)) <= 1
        /\ \A a \in DOMAIN GLAccounts :
              NetOfEntries({i} \cup PostedReversals(i), a)
                 \in {NetOnAccount(journal_entries[i], a), 0}
====
